---- MODULE Spec2Model ----
(***************************************************************************)
(* Network graph model and analysis engine of the ad hoc network builder:  *)
(* pathfinding (findShortestPath), graph statistics, connected components, *)
(* topology classification, the performance simulation, the network        *)
(* generator and the workspace state around them (undo history, analysis   *)
(* state, save and load).                                                  *)
(*                                                                         *)
(* Node ids are strings; "" is the empty id.  A path is a sequence of ids  *)
(* and the JavaScript null result is modelled by the empty sequence (a     *)
(* returned path always holds at least its start id).                      *)
(***************************************************************************)
EXTENDS Integers, Sequences, FiniteSets, TLC

VARIABLES nodes, connections, clusterHeadIds, request, pc, call, ret,
          adjacency, simulationResults, history, analysis, alert,
          networkDataToSave, download,
          isConnectionMode, isPacketSimulationMode, packetSimSourceNodes,
          selectedNodeId, selectedConnectionId, isConnecting,
          animatedPackets, animationFrameRef, droppedPacketEvents,
          isAnalyzing, flows, clock

\* the state outside the graph and the routine calls: the content of the
\* SIMULATION_RESULTS table, the undo history, the analysis state of the
\* workspace, the last message shown, the JSON text handed to the save
\* dialog and the file that the last save wrote
panel == <<simulationResults, history, analysis, alert, networkDataToSave,
           download>>

\* the state of the canvas and of the running work: the two modes of the
\* toolbar, the sources picked for the packet simulation, the selected node
\* and connection, the node picked as the start of a manual connection, the
\* packets in flight with the animation frame that moves them and the drop
\* marks they left, the analyses that wait for an answer of the language
\* model, and the number of ids stamped so far (Date.now() in an id)
modes == <<isConnectionMode, isPacketSimulationMode, packetSimSourceNodes>>
selection == <<selectedNodeId, selectedConnectionId>>
animation == <<animatedPackets, animationFrameRef, droppedPacketEvents>>
work == <<isAnalyzing, flows>>
ui == <<modes, selection, isConnecting, animation, work, clock>>

\* the routine calls with the request of the toolbar, and the save dialog
calls == <<request, pc, call, ret, adjacency, simulationResults>>
files == <<networkDataToSave, download>>

vars == <<nodes, connections, clusterHeadIds, request, pc, call, ret,
          adjacency, panel, ui>>

(***************************************************************************)
(* Bounds of the checked input space.                                      *)
(***************************************************************************)
MaxConns == 4
MaxExclude == 1

\* the node ids of the checked graphs; GhostId is an id that connections and
\* calls may mention but that never is the id of a node
GhostId == "g"
EmptyId == ""

Null == <<>>

\* ---------------------------------------------------------------- helpers
Range(s) == {s[i] : i \in DOMAIN s}

Includes(s, e) == \E i \in DOMAIN s : s[i] = e

RECURSIVE SeqSum(_)
SeqSum(s) == IF s = <<>> THEN 0 ELSE Head(s) + SeqSum(Tail(s))

Count(s, P(_)) == Cardinality({i \in DOMAIN s : P(s[i])})

\* types.ts NetworkComponentType
NODE == "NODE"
ROUTER == "ROUTER"
SWITCH == "SWITCH"
BASE_STATION == "BASE_STATION"
NetworkComponentType == {NODE, ROUTER, SWITCH, BASE_STATION}

\* energySpent of a new component of a type (an end device draws 5..15)
TypeEnergySpent(type) ==
    CASE type = ROUTER -> 25
      [] type = SWITCH -> 10
      [] type = BASE_STATION -> 50
      [] OTHER -> 10

MkNode(id, type, enabled, x, y, eff) ==
    [id |-> id, type |-> type, isEnabled |-> enabled, x |-> x, y |-> y,
     energyEfficiency |-> eff, energySpent |-> TypeEnergySpent(type),
     isMalicious |-> FALSE]

MkConn(from, to) == [from |-> from, to |-> to]

NodeIdsOf(ns) == {ns[i].id : i \in DOMAIN ns}

\* ------------------------------------------------------- findShortestPath
\* a slip that would record a connection in one direction only
PathAddConnection_OneWay(adj, c, disabledSwitches, excludeNodeIds) ==
    IF \/ c.from \in disabledSwitches \/ c.to \in disabledSwitches
       \/ Includes(excludeNodeIds, c.from) \/ Includes(excludeNodeIds, c.to)
    THEN adj
    ELSE IF c.from \in DOMAIN adj
         THEN [adj EXCEPT ![c.from] = Append(@, c.to)] ELSE adj

\* lines 37-43: one connection folded into the adjacency
PathAddConnection(adj, c, disabledSwitches, excludeNodeIds) ==
    IF \/ c.from \in disabledSwitches \/ c.to \in disabledSwitches
       \/ Includes(excludeNodeIds, c.from) \/ Includes(excludeNodeIds, c.to)
    THEN adj
    ELSE LET a1 == IF c.from \in DOMAIN adj
                   THEN [adj EXCEPT ![c.from] = Append(@, c.to)] ELSE adj
             a2 == IF c.to \in DOMAIN a1
                   THEN [a1 EXCEPT ![c.to] = Append(@, c.from)] ELSE a1
         IN a2

RECURSIVE PathFoldConnections(_, _, _, _)
PathFoldConnections(adj, cs, disabledSwitches, excludeNodeIds) ==
    IF cs = <<>> THEN adj
    ELSE PathFoldConnections(
            PathAddConnection(adj, Head(cs), disabledSwitches, excludeNodeIds),
            Tail(cs), disabledSwitches, excludeNodeIds)

\* lines 35: ids of SWITCH nodes with isEnabled === false
DisabledSwitches(ns) ==
    {ns[i].id : i \in {j \in DOMAIN ns :
                         ns[j].type = SWITCH /\ ns[j].isEnabled = FALSE}}

\* lines 28-43: adjacency over the non-excluded nodes
PathAdjacency(ns, cs, excludeNodeIds) ==
    PathFoldConnections(
        [id \in {n \in NodeIdsOf(ns) : ~Includes(excludeNodeIds, n)} |-> <<>>],
        cs, DisabledSwitches(ns), excludeNodeIds)

\* lines 58-64: the for loop over the neighbours of the dequeued node;
\* st = [queue, visited]
RECURSIVE PathVisitNeighbors(_, _, _)
PathVisitNeighbors(st, path, neighbors) ==
    IF neighbors = <<>> THEN st
    ELSE LET nb == Head(neighbors)
         IN IF nb \notin st.visited
            THEN PathVisitNeighbors(
                    [queue |-> Append(st.queue, Append(path, nb)),
                     visited |-> st.visited \cup {nb}],
                    path, Tail(neighbors))
            ELSE PathVisitNeighbors(st, path, Tail(neighbors))

\* lines 49-67: the while loop
RECURSIVE PathBFS(_, _, _)
PathBFS(st, adj, endNodeId) ==
    IF st.queue = <<>> THEN Null
    ELSE LET path == Head(st.queue)
             nodeId == path[Len(path)]
         IN IF nodeId = endNodeId THEN path
            ELSE LET neighbors == IF nodeId \in DOMAIN adj THEN adj[nodeId]
                                  ELSE <<>>
                 IN PathBFS(PathVisitNeighbors(
                                [queue |-> Tail(st.queue), visited |-> st.visited],
                                path, neighbors),
                            adj, endNodeId)

findShortestPath(startNodeId, endNodeId, ns, cs, excludeNodeIds) ==
    IF \/ startNodeId = EmptyId \/ endNodeId = EmptyId \/ Len(ns) = 0
       \/ Includes(excludeNodeIds, startNodeId)
       \/ Includes(excludeNodeIds, endNodeId)
    THEN Null
    ELSE PathBFS([queue |-> <<<<startNodeId>>>>, visited |-> {startNodeId}],
                 PathAdjacency(ns, cs, excludeNodeIds), endNodeId)

\* ------------------------------------------------------- getNetworkStats
\* a slip that would record a connection at its from end only
AddConnectionOptional_OneWay(adj, c) ==
    IF c.from \in DOMAIN adj
    THEN [adj EXCEPT ![c.from] = Append(@, c.to)] ELSE adj

\* adjacency[c.from]?.push(c.to); adjacency[c.to]?.push(c.from);
AddConnectionOptional(adj, c) ==
    LET a1 == IF c.from \in DOMAIN adj
              THEN [adj EXCEPT ![c.from] = Append(@, c.to)] ELSE adj
        a2 == IF c.to \in DOMAIN a1
              THEN [a1 EXCEPT ![c.to] = Append(@, c.from)] ELSE a1
    IN a2

RECURSIVE FoldOptional(_, _)
FoldOptional(adj, cs) ==
    IF cs = <<>> THEN adj
    ELSE FoldOptional(AddConnectionOptional(adj, Head(cs)), Tail(cs))

StatsAdjacency(ns, cs) == FoldOptional([id \in NodeIdsOf(ns) |-> <<>>], cs)

\* a quotient a / b kept exact as the pair <<a, b>>
Ratio(a, b) == <<a, b>>

getNetworkStats(ns, cs) ==
    IF Len(ns) = 0
    THEN [nodeCount |-> 0, connectionCount |-> 0, avgDegree |-> Ratio(0, 1),
          isolatedNodes |-> 0, routerCount |-> 0, switchCount |-> 0,
          baseStationCount |-> 0, avgEnergyEfficiency |-> Ratio(0, 1),
          weakNodes |-> 0]
    ELSE LET adj == StatsAdjacency(ns, cs)
             nodeDegrees == [i \in DOMAIN ns |-> Len(adj[ns[i].id])]
             endNodes == SelectSeq(ns, LAMBDA n : n.type = NODE)
         IN [nodeCount |-> Len(ns),
             connectionCount |-> Len(cs),
             avgDegree |-> Ratio(SeqSum(nodeDegrees), Len(ns)),
             isolatedNodes |-> Count(nodeDegrees, LAMBDA d : d = 0),
             routerCount |-> Count(ns, LAMBDA n : n.type = ROUTER),
             switchCount |-> Count(ns, LAMBDA n : n.type = SWITCH),
             baseStationCount |-> Count(ns, LAMBDA n : n.type = BASE_STATION),
             avgEnergyEfficiency |->
                 IF Len(endNodes) > 0
                 THEN Ratio(SeqSum([i \in DOMAIN endNodes |->
                                      endNodes[i].energyEfficiency]),
                            Len(endNodes))
                 ELSE Ratio(100, 1),
             weakNodes |-> Count(endNodes, LAMBDA n : n.energyEfficiency < 85)]

\* -------------------------------------------------- findNetworkComponents
RECURSIVE FoldOneWay(_, _)
FoldOneWay(adj, cs) ==
    IF cs = <<>> THEN adj
    ELSE FoldOneWay(AddConnectionOptional_OneWay(adj, Head(cs)), Tail(cs))

\* a slip that would walk the connections in their from-to direction only
ComponentsAdjacency_OneWay(ns, cs) ==
    FoldOneWay([id \in NodeIdsOf(ns) |-> <<>>], cs)

ComponentsAdjacency(ns, cs) ==
    FoldOptional([id \in NodeIdsOf(ns) |-> <<>>], cs)

\* lines 223-231: the loop over the neighbours of currentNode;
\* st = [queue, visited]
RECURSIVE CompVisitNeighbors(_, _, _)
CompVisitNeighbors(st, neighbors, ns) ==
    IF neighbors = <<>> THEN st
    ELSE LET neighborId == Head(neighbors)
         IN IF neighborId \notin st.visited
            THEN LET found == SelectSeq(ns, LAMBDA n : n.id = neighborId)
                 IN CompVisitNeighbors(
                       [queue |-> IF found # <<>>
                                  THEN Append(st.queue, Head(found))
                                  ELSE st.queue,
                        visited |-> st.visited \cup {neighborId}],
                       Tail(neighbors), ns)
            ELSE CompVisitNeighbors(st, Tail(neighbors), ns)

\* lines 218-232: the while loop; returns [component, visited]
RECURSIVE CompBFS(_, _, _, _)
CompBFS(st, currentComponentNodes, adj, ns) ==
    IF st.queue = <<>>
    THEN [component |-> currentComponentNodes, visited |-> st.visited]
    ELSE LET currentNode == Head(st.queue)
             neighbors == IF currentNode.id \in DOMAIN adj
                          THEN adj[currentNode.id] ELSE <<>>
         IN CompBFS(CompVisitNeighbors(
                        [queue |-> Tail(st.queue), visited |-> st.visited],
                        neighbors, ns),
                    Append(currentComponentNodes, currentNode), adj, ns)

\* lines 212-235: the loop over the nodes
RECURSIVE CompOuter(_, _, _, _, _)
CompOuter(i, ns, adj, visited, components) ==
    IF i > Len(ns) THEN components
    ELSE IF ns[i].id \notin visited
         THEN LET r == CompBFS([queue |-> <<ns[i]>>,
                                visited |-> visited \cup {ns[i].id}],
                               <<>>, adj, ns)
              IN CompOuter(i + 1, ns, adj, r.visited,
                           Append(components, r.component))
         ELSE CompOuter(i + 1, ns, adj, visited, components)

findNetworkComponents(ns, cs) ==
    IF Len(ns) = 0 THEN <<>>
    ELSE CompOuter(1, ns, ComponentsAdjacency(ns, cs), {}, <<>>)

\* ------------------------------------------------------- identifyTopology
\* lines 105-112: a connection counts only when both ends are nodes
TopoAddConnection(adj, c) ==
    IF c.from \in DOMAIN adj /\ c.to \in DOMAIN adj
    THEN LET a1 == [adj EXCEPT ![c.from] = Append(@, c.to)]
         IN [a1 EXCEPT ![c.to] = Append(@, c.from)]
    ELSE adj

RECURSIVE TopoFold(_, _)
TopoFold(adj, cs) ==
    IF cs = <<>> THEN adj ELSE TopoFold(TopoAddConnection(adj, Head(cs)), Tail(cs))

TopoAdjacency(ns, cs) == TopoFold([id \in NodeIdsOf(ns) |-> <<>>], cs)

HybridLabels == <<"Hybrid Topology (1 disconnected components)",
                  "Hybrid Topology (2 disconnected components)",
                  "Hybrid Topology (3 disconnected components)",
                  "Hybrid Topology (4 disconnected components)",
                  "Hybrid Topology (5 disconnected components)",
                  "Hybrid Topology (6 disconnected components)",
                  "Hybrid Topology (7 disconnected components)",
                  "Hybrid Topology (8 disconnected components)",
                  "Hybrid Topology (9 disconnected components)",
                  "Hybrid Topology (10 disconnected components)",
                  "Hybrid Topology (11 disconnected components)",
                  "Hybrid Topology (12 disconnected components)">>

\* the distinct values of S in increasing order ([...new Set(..)].sort)
RECURSIVE SortedCoords(_)
SortedCoords(S) ==
    IF S = {} THEN <<>>
    ELSE LET m == CHOOSE v \in S : \A w \in S : v <= w
         IN <<m>> \o SortedCoords(S \ {m})

\* stdDev / avgGap < 0.3 over the gaps of coords, in exact arithmetic:
\* with k gaps of sum t, sqrt(sum (g - t/k)^2 / k) / (t/k) < 0.3
\* iff 100 * sum (k*g - t)^2 < 9 * k * t^2  (t > 0)
GapsRegular(coords) ==
    LET k == Len(coords) - 1
        gaps == [i \in 1..k |-> coords[i + 1] - coords[i]]
        t == SeqSum(gaps)
    IN /\ t > 0
       /\ 100 * SeqSum([i \in 1..k |-> (k * gaps[i] - t) * (k * gaps[i] - t)])
            < 9 * k * t * t

\* lines 117-141: the cluster rule; "none" when it gives no label
ClusterRule(ns, adj, heads) ==
    IF Len(heads) = 0 THEN "none"
    ELSE LET clusterHeads == SelectSeq(ns, LAMBDA n : Includes(heads, n.id))
         IN IF Len(clusterHeads) = 0 THEN "none"
            ELSE LET endNodes == SelectSeq(ns, LAMBDA n :
                                     ~Includes(heads, n.id) /\ n.type # BASE_STATION)
                     clusterConnections ==
                         Count(endNodes, LAMBDA en :
                             \E k \in DOMAIN adj[en.id] :
                                 Includes(heads, adj[en.id][k]))
                 IN IF Len(endNodes) > 0 /\ 2 * clusterConnections > Len(endNodes)
                    THEN IF SeqSum([i \in DOMAIN clusterHeads |->
                                      Len(adj[clusterHeads[i].id])])
                              > Len(clusterHeads) * Len(clusterHeads)
                         THEN "Cluster Mesh Topology"
                         ELSE "Cluster Topology"
                    ELSE "none"

\* lines 143-149: the first node of degree >= nodeCount - 2, as a list of
\* at most one node
CentralNode(ns, adj) ==
    LET hits == SelectSeq(ns, LAMBDA n : Len(adj[n.id]) >= Len(ns) - 2)
    IN IF hits = <<>> THEN <<>> ELSE <<Head(hits)>>

\* lines 170-186: the grid heuristic
GridLike(ns) ==
    LET xCoords == SortedCoords({ns[i].x : i \in DOMAIN ns})
        yCoords == SortedCoords({ns[i].y : i \in DOMAIN ns})
    IN /\ Len(xCoords) > 2 /\ Len(yCoords) > 2
       /\ GapsRegular(xCoords) /\ GapsRegular(yCoords)
       /\ 10 * Len(xCoords) * Len(yCoords) >= 7 * Len(ns)

\* lines 143-196: the degree rules and the mesh / hybrid fallback
DegreeRules(ns, cs, adj) ==
    LET nodeCount == Len(ns)
        degrees == [i \in DOMAIN ns |-> Len(adj[ns[i].id])]
        centralNode == CentralNode(ns, adj)
        degreeOneCount == Count(degrees, LAMBDA d : d = 1)
        degreeTwoCount == Count(degrees, LAMBDA d : d = 2)
        components == findNetworkComponents(ns, cs)
    IN IF /\ centralNode # <<>>
          /\ centralNode[1].type \in {BASE_STATION, SWITCH}
       THEN "Star Topology"
       ELSE IF \A i \in DOMAIN degrees : degrees[i] = 2
       THEN "Ring Topology"
       ELSE IF degreeOneCount = 2 /\ degreeTwoCount = nodeCount - 2
       THEN "Bus Topology"
       ELSE IF Len(components) <= 2 /\ 2 * SeqSum(degrees) > 5 * nodeCount
       THEN (IF GridLike(ns) THEN "Grid Topology" ELSE "Mesh Topology")
       ELSE IF Len(components) > 2
       THEN HybridLabels[Len(components)]
       ELSE "Hybrid Topology"

identifyTopology(ns, cs, heads) ==
    IF Len(ns) < 3 THEN "Linear Topology"
    ELSE LET adj == TopoAdjacency(ns, cs)
             byCluster == ClusterRule(ns, adj, heads)
         IN IF byCluster # "none" THEN byCluster
            ELSE DegreeRules(ns, cs, adj)

\* ---------------------------------------------------- simulatePerformance
\* Metric values are exact rationals <<n, d>> in lowest terms with d > 0;
\* NaN is <<0, 0>>.  The node fields read are numbers with a positive
\* energySpent sum, so that no division by zero occurs.
RECURSIVE Gcd(_, _)
Gcd(a, b) == IF b = 0 THEN a ELSE Gcd(b, a % b)

Abs(a) == IF a < 0 THEN -a ELSE a

Q(n, d) == LET g == Gcd(Abs(n), d) IN <<n \div g, d \div g>>

QInt(n) == <<n, 1>>

NaN == <<0, 0>>

QNeg(p) == <<-p[1], p[2]>>

QAdd(p, q) ==
    LET g == Gcd(p[2], q[2])
    IN Q(p[1] * (q[2] \div g) + q[1] * (p[2] \div g), (p[2] \div g) * q[2])

QSub(p, q) == QAdd(p, QNeg(q))

QMul(p, q) ==
    LET g1 == Gcd(Abs(p[1]), q[2])
        g2 == Gcd(Abs(q[1]), p[2])
    IN <<(p[1] \div g1) * (q[1] \div g2), (p[2] \div g2) * (q[2] \div g1)>>

\* p / q for q # 0
QDiv(p, q) ==
    QMul(p, IF q[1] > 0 THEN <<q[2], q[1]>> ELSE <<-q[2], -q[1]>>)

\* p < q, by the integer parts and then the inverted fractional parts
RECURSIVE QLess(_, _)
QLess(p, q) ==
    LET fp == p[1] \div p[2]
        fq == q[1] \div q[2]
        rp == p[1] % p[2]
        rq == q[1] % q[2]
    IN IF fp # fq THEN fp < fq
       ELSE IF rq = 0 THEN FALSE
       ELSE IF rp = 0 THEN TRUE
       ELSE QLess(<<q[2], rq>>, <<p[2], rp>>)

QMax(p, q) == IF QLess(p, q) THEN q ELSE p
QMin(p, q) == IF QLess(q, p) THEN q ELSE p

\* Math.round: the nearest integer, halves upwards
QRound(p) == QInt((2 * p[1] + p[2]) \div (2 * p[2]))

\* Math.round(c / Math.sqrt(b)) for c >= 0 and b >= 1: the r with
\* (2r - 1)^2 <= 4 c^2 / b < (2r + 1)^2
RoundOverSqrt(c, b) ==
    LET t == QDiv(QMul(QInt(4), QMul(c, c)), b)
        s == t[1] \div t[2]
    IN QInt(CHOOSE r \in 0..((c[1] \div c[2]) + 1) :
               /\ (2 * r + 1) * (2 * r + 1) > s
               /\ r = 0 \/ (2 * r - 1) * (2 * r - 1) <= s)

AI_BASED == "AI-Based"
TRADITIONAL == "Traditional"

PDR == "Packet Delivery Ratio"
DELAY == "End-to-end Delay (ms)"
ENERGY == "Energy Consumption (J)"
LIFETIME == "Network Lifetime (days)"
SCALABILITY == "Scalability Index"
COMPUTATIONAL == "Computational Efficiency (ops/J)"
EFFICIENCY == "Energy Efficiency"
ROBUSTNESS == "Robustness Index"
ADAPTABILITY == "Adaptability Rate"
THROUGHPUT == "Throughput (Mbps)"

\* constants.ts SIMULATION_RESULTS
SIMULATION_RESULTS ==
    AI_BASED :> (PDR :> Q(95, 100) @@ DELAY :> QInt(25) @@ ENERGY :> QInt(500)
                 @@ LIFETIME :> QInt(150) @@ SCALABILITY :> Q(85, 100)
                 @@ COMPUTATIONAL :> QInt(120) @@ EFFICIENCY :> Q(90, 100)
                 @@ ROBUSTNESS :> Q(92, 100) @@ ADAPTABILITY :> Q(88, 100))
    @@ TRADITIONAL :> (PDR :> Q(88, 100) @@ DELAY :> QInt(35) @@ ENERGY :> QInt(577)
                 @@ LIFETIME :> QInt(130) @@ SCALABILITY :> Q(78, 100)
                 @@ COMPUTATIONAL :> QInt(95) @@ EFFICIENCY :> Q(86, 100)
                 @@ ROBUSTNESS :> Q(87, 100) @@ ADAPTABILITY :> Q(84, 100))

\* the words that lines 271-276 look for in the lower-case label
TopologyWords(topology) ==
    CASE topology = "Cluster Mesh Topology" -> {"cluster", "mesh"}
      [] topology = "Cluster Topology" -> {"cluster"}
      [] topology = "Mesh Topology" -> {"mesh"}
      [] topology = "Star Topology" -> {"star"}
      [] topology = "Grid Topology" -> {"grid"}
      [] topology = "Ring Topology" -> {"ring"}
      [] topology = "Bus Topology" -> {"bus"}
      [] OTHER -> {}

\* lines 270-276
PdrRange(topology) ==
    LET words == TopologyWords(topology)
    IN IF "mesh" \in words /\ "cluster" \in words THEN <<Q(80, 100), Q(95, 100)>>
       ELSE IF "mesh" \in words THEN <<Q(85, 100), QInt(1)>>
       ELSE IF "star" \in words THEN <<Q(60, 100), Q(80, 100)>>
       ELSE IF "grid" \in words THEN <<Q(55, 100), Q(75, 100)>>
       ELSE IF "ring" \in words THEN <<Q(50, 100), Q(70, 100)>>
       ELSE IF "bus" \in words THEN <<Q(40, 100), Q(60, 100)>>
       ELSE <<Q(70, 100), Q(85, 100)>>

RatioKeys == {PDR, EFFICIENCY, SCALABILITY, ROBUSTNESS, ADAPTABILITY}
RoundKeys == {DELAY, ENERGY, LIFETIME, COMPUTATIONAL, THROUGHPUT}

\* line 341
ClampAI(v) == QMax(Q(40, 100), QMin(Q(99, 100), v))

\* a slip that would clamp Traditional against its own cap only
ClampTraditional_OwnCap(ai, v) == QMax(Q(35, 100), QMin(Q(95, 100), v))

\* lines 345-346, ai being the clamped AI value
ClampTraditional(ai, v) ==
    LET tradUpperCap == QMin(Q(95, 100), QSub(ai, Q(5, 100)))
    IN QMax(Q(35, 100), QMin(tradUpperCap, v))

FilterType(ns, type) == SelectSeq(ns, LAMBDA n : n.type = type)

\* the sum of s[lo..hi]; the sum of integers does not depend on the order
\* in which reduce adds them, and halving keeps the evaluation shallow for
\* the long lists
RECURSIVE SumBetween(_, _, _)
SumBetween(s, lo, hi) ==
    IF lo > hi THEN 0
    ELSE IF lo = hi THEN s[lo]
    ELSE SumBetween(s, lo, (lo + hi) \div 2)
         + SumBetween(s, (lo + hi) \div 2 + 1, hi)

SumOf(s) == SumBetween(s, 1, Len(s))

\* the keys of the two returned objects: those of the table and the
\* throughput key that line 287 adds
ResultKeys(results) == DOMAIN results[AI_BASED] \cup {THROUGHPUT}

\* networkAnalysisService.simulatePerformance; results is the content of
\* SIMULATION_RESULTS at the call.  The table has no throughput entry, so
\* every product of lines 287, 296, 317, 321 and 330 is NaN and so is its
\* Math.round.
simulatePerformance(results, topology, ns, cs, maliciousNodeIds) ==
    LET nodeCount == Len(ns)
        endNodes == FilterType(ns, NODE)
        routers == FilterType(ns, ROUTER)
        baseStations == FilterType(ns, BASE_STATION)
        avgEndNodeEfficiency ==
            IF Len(endNodes) > 0
            THEN Q(SumOf([i \in 1..Len(endNodes) |-> endNodes[i].energyEfficiency]),
                   Len(endNodes) * 100)
            ELSE QInt(1)
        totalEnergyConsumptionRate ==
            SumOf([i \in 1..nodeCount |-> ns[i].energySpent])
        pdrRange == PdrRange(topology)
        normalizedHealth ==
            QDiv(QSub(avgEndNodeEfficiency, Q(8, 10)), QSub(QInt(1), Q(8, 10)))
        basePdr ==
            QAdd(pdrRange[1], QMul(normalizedHealth, QSub(pdrRange[2], pdrRange[1])))
        infraBoost ==
            QAdd(QAdd(QInt(1), QMul(QInt(Len(routers)), Q(2, 100))),
                 QMul(QInt(Len(baseStations)), Q(5, 100)))
        consumptionFactor == Q(totalEnergyConsumptionRate, 500)
        healthBoost ==
            QAdd(QInt(1), QMax(QInt(0),
                               QMul(QSub(avgEndNodeEfficiency, Q(85, 100)), Q(5, 10))))
        lifetimeFactor ==
            IF QLess(QInt(0), avgEndNodeEfficiency)
            THEN QDiv(QMul(avgEndNodeEfficiency,
                           QMul(avgEndNodeEfficiency, avgEndNodeEfficiency)),
                      QMul(consumptionFactor, Q(4, 10)))
            ELSE QInt(0)
        scaleFactor == QAdd(QInt(1), Q(Len(endNodes), 150))
        attacked == Len(maliciousNodeIds) > 0
        attackSeverity ==
            QAdd(QInt(1), QMul(Q(Len(maliciousNodeIds), nodeCount), QInt(5)))
        aiPdr == QMul(QMul(basePdr, infraBoost), healthBoost)
        aiRobustness == QMul(results[AI_BASED][ROBUSTNESS], infraBoost)
        \* the AI delay before its division by Math.sqrt(infraBoost)
        aiDelayOverRoot == QMul(results[AI_BASED][DELAY], scaleFactor)
        aiBased ==
            [k \in ResultKeys(results) |->
               CASE k = PDR -> aiPdr
                 [] k = ROBUSTNESS ->
                      IF attacked
                      THEN QMin(Q(99, 100), QMul(aiRobustness, Q(105, 100)))
                      ELSE aiRobustness
                 [] k = ENERGY -> QMul(results[AI_BASED][ENERGY], consumptionFactor)
                 [] k = EFFICIENCY -> avgEndNodeEfficiency
                 [] k = LIFETIME -> QMul(results[AI_BASED][LIFETIME], lifetimeFactor)
                 [] k = THROUGHPUT -> NaN
                 [] OTHER -> results[AI_BASED][k]]
        tradPdr == QMul(aiPdr, Q(9, 10))
        tradDelay == QMul(results[TRADITIONAL][DELAY], QMul(scaleFactor, Q(11, 10)))
        tradLifetime ==
            QMul(results[TRADITIONAL][LIFETIME], QMul(lifetimeFactor, Q(85, 100)))
        traditional ==
            [k \in ResultKeys(results) |->
               CASE k = PDR ->
                      IF attacked
                      THEN QMul(tradPdr, QDiv(Q(3, 10), attackSeverity))
                      ELSE tradPdr
                 [] k = DELAY ->
                      IF attacked
                      THEN QMul(tradDelay, QMul(Q(15, 10), attackSeverity))
                      ELSE tradDelay
                 [] k = ROBUSTNESS ->
                      IF attacked
                      THEN QMul(results[TRADITIONAL][ROBUSTNESS], Q(2, 10))
                      ELSE results[TRADITIONAL][ROBUSTNESS]
                 [] k = LIFETIME ->
                      IF attacked THEN QMul(tradLifetime, Q(5, 10)) ELSE tradLifetime
                 [] k = ENERGY ->
                      QMul(results[TRADITIONAL][ENERGY],
                           QMul(consumptionFactor, Q(115, 100)))
                 [] k = EFFICIENCY -> QMul(avgEndNodeEfficiency, Q(95, 100))
                 [] k = THROUGHPUT -> NaN
                 [] OTHER -> results[TRADITIONAL][k]]
        aiFinal ==
            [k \in ResultKeys(results) |->
               IF k \in RatioKeys THEN ClampAI(aiBased[k])
               ELSE IF k = THROUGHPUT THEN NaN
               ELSE IF k = DELAY THEN RoundOverSqrt(aiDelayOverRoot, infraBoost)
               ELSE QRound(aiBased[k])]
        tradFinal ==
            [k \in ResultKeys(results) |->
               IF k \in RatioKeys THEN ClampTraditional(aiFinal[k], traditional[k])
               ELSE IF k = THROUGHPUT THEN NaN
               ELSE QRound(traditional[k])]
    IN IF nodeCount = 0
       THEN AI_BASED :> results[AI_BASED] @@ TRADITIONAL :> results[TRADITIONAL]
       ELSE AI_BASED :> aiFinal @@ TRADITIONAL :> tradFinal

\* an aliasing slip: the two objects of the table themselves are modified
\* and returned, so the table holds the result after the call
ResultsAfter_Aliased(results, out) == out

\* lines 249-250 and 264-265: the call works on spread copies, the table
\* keeps its content
ResultsAfter(results, out) == results

\* -------------------------------------------------------- generateNetwork
\* VisualBuilderWorkspace.generateNetwork.  Coordinates are pixels rounded
\* to integers; Math.random() is one of NumStreams fixed streams of values
\* v / RandRes, v in 0..RandRes-1; Date.now() is left out of the ids, which
\* keep the type prefix and the node index.
MaxCount == 8
MaxClusterHeads == 3
NumStreams == 2

NodeLimit == 450
Padding == 40
CanvasWidth == 800
CanvasHeight == 600
K_NEAREST_IN_CLUSTER == 3
K_NEAREST == 3

NetworkTopology ==
    {"random", "mesh", "ring", "bus", "star", "grid", "cluster", "cluster-mesh"}

RandRes == 11

\* draw number slot (0: first coordinate or angle, 1: second coordinate or
\* radius, 2: energyEfficiency, 3: energySpent) of the node of index i in
\* stream seed
Rand(seed, i, slot) ==
    LET k == 4 * (i + 1) + slot + 1
    IN (k * k * (2 * seed + 1) + k * seed + seed) % RandRes

Min2(a, b) == IF a <= b THEN a ELSE b
Max2(a, b) == IF a >= b THEN a ELSE b

\* a / b rounded to the nearest integer, halves upwards (b > 0)
RoundDiv(a, b) == (2 * a + b) \div (2 * b)

\* the least integer >= a / b (b > 0)
CeilDiv(a, b) == (a + b - 1) \div b

\* 1000 * cos(2 * pi * i / n) and 1000 * sin(2 * pi * i / n), rounded,
\* row n, column i + 1
CosTable ==
    <<<<1000>>,
      <<1000, -1000>>,
      <<1000, -500, -500>>,
      <<1000, 0, -1000, 0>>,
      <<1000, 309, -809, -809, 309>>,
      <<1000, 500, -500, -1000, -500, 500>>,
      <<1000, 623, -223, -901, -901, -223, 623>>,
      <<1000, 707, 0, -707, -1000, -707, 0, 707>>,
      <<1000, 766, 174, -500, -940, -940, -500, 174, 766>>,
      <<1000, 809, 309, -309, -809, -1000, -809, -309, 309, 809>>,
      <<1000, 841, 415, -142, -655, -959, -959, -655, -142, 415, 841>>,
      <<1000, 866, 500, 0, -500, -866, -1000, -866, -500, 0, 500, 866>>>>

SinTable ==
    <<<<0>>,
      <<0, 0>>,
      <<0, 866, -866>>,
      <<0, 1000, 0, -1000>>,
      <<0, 951, 588, -588, -951>>,
      <<0, 866, 866, 0, -866, -866>>,
      <<0, 782, 975, 434, -434, -975, -782>>,
      <<0, 707, 1000, 707, 0, -707, -1000, -707>>,
      <<0, 643, 985, 866, 342, -342, -866, -985, -643>>,
      <<0, 588, 951, 951, 588, 0, -588, -951, -951, -588>>,
      <<0, 541, 910, 990, 756, 282, -282, -756, -990, -910, -541>>,
      <<0, 500, 866, 1000, 866, 500, 0, -500, -866, -1000, -866, -500>>>>

NodeIds ==
    <<"node--1", "node-0", "node-1", "node-2", "node-3", "node-4", "node-5", "node-6", "node-7", "node-8", "node-9", "node-10", "node-11", "node-12", "node-13">>

RouterIds ==
    <<"router--1", "router-0", "router-1", "router-2", "router-3", "router-4", "router-5", "router-6", "router-7", "router-8", "router-9", "router-10", "router-11", "router-12", "router-13">>

SwitchIds ==
    <<"switch--1", "switch-0", "switch-1", "switch-2", "switch-3", "switch-4", "switch-5", "switch-6", "switch-7", "switch-8", "switch-9", "switch-10", "switch-11", "switch-12", "switch-13">>

BaseStationIds ==
    <<"base_station--1", "base_station-0", "base_station-1", "base_station-2", "base_station-3", "base_station-4", "base_station-5", "base_station-6", "base_station-7", "base_station-8", "base_station-9", "base_station-10", "base_station-11", "base_station-12", "base_station-13">>

Cos1000(i, n) == CosTable[n][i + 1]
Sin1000(i, n) == SinTable[n][i + 1]

\* `${type.toLowerCase()}-${i}` for i in -1..13
GenId(type, i) ==
    (CASE type = NODE -> NodeIds
       [] type = ROUTER -> RouterIds
       [] type = SWITCH -> SwitchIds
       [] type = BASE_STATION -> BaseStationIds)[i + 2]

\* lines 506-517
createNode(i, x, y, type, seed) ==
    LET base == MkNode(GenId(type, i), type, TRUE, x, y,
                       IF type = NODE
                       THEN 80 + RoundDiv(20 * Rand(seed, i, 2), RandRes)
                       ELSE 100)
    IN IF type = NODE
       THEN [base EXCEPT !.energySpent =
                            RoundDiv(10 * Rand(seed, i, 3), RandRes) + 5]
       ELSE base

\* squared distance between the positions of a and b
Dist2(a, b) == (a.x - b.x) * (a.x - b.x) + (a.y - b.y) * (a.y - b.y)

\* Array.prototype.sort by distance to p: increasing, equal distances in
\* list order
SortByDistance(s, p) ==
    LET before(i, j) == \/ Dist2(s[i], p) < Dist2(s[j], p)
                        \/ Dist2(s[i], p) = Dist2(s[j], p) /\ i < j
        rank(j) == 1 + Cardinality({i \in DOMAIN s : before(i, j)})
    IN [k \in DOMAIN s |-> s[CHOOSE j \in DOMAIN s : rank(j) = k]]

RECURSIVE Concat(_)
Concat(ss) == IF ss = <<>> THEN <<>> ELSE Head(ss) \o Concat(Tail(ss))

\* some(c => c joins a and b, in either direction)
ConnExists(conns, a, b) ==
    \E k \in DOMAIN conns : \/ conns[k].from = a /\ conns[k].to = b
                            \/ conns[k].from = b /\ conns[k].to = a

\* lines 581-587 and 638-644: connect source to each of targets unless the
\* pair is connected already
RECURSIVE ConnectIfAbsent(_, _, _)
ConnectIfAbsent(conns, source, targets) ==
    IF targets = <<>> THEN conns
    ELSE ConnectIfAbsent(
             IF ConnExists(conns, source.id, Head(targets).id) THEN conns
             ELSE Append(conns, MkConn(source.id, Head(targets).id)),
             source, Tail(targets))

\* lines 575-588 and 632-645: every node of group, from position i on, is
\* connected to its k nearest other nodes of group
RECURSIVE ConnectNearest(_, _, _, _)
ConnectNearest(group, i, k, conns) ==
    IF i > Len(group) THEN conns
    ELSE LET sourceNode == group[i]
             distances == SortByDistance(
                              SelectSeq(group, LAMBDA n : n.id # sourceNode.id),
                              sourceNode)
         IN ConnectNearest(group, i + 1, k,
                ConnectIfAbsent(conns, sourceNode,
                    SubSeq(distances, 1, Min2(k, Len(distances)))))

\* lines 571-590: the nearest-neighbour links inside each cluster, cluster
\* by cluster from position c on
RECURSIVE ClusterMesh(_, _, _)
ClusterMesh(allClusterNodes, c, conns) ==
    IF c > Len(allClusterNodes) THEN conns
    ELSE ClusterMesh(allClusterNodes, c + 1,
             IF Len(allClusterNodes[c]) < 2 THEN conns
             ELSE ConnectNearest(allClusterNodes[c], 1,
                                 K_NEAREST_IN_CLUSTER, conns))

\* lines 527-598: 'cluster' and 'cluster-mesh' once the count is accepted
ClusterNetwork(count, topology, includeRouters, numClusterHeads, seed) ==
    LET actualNumClusterHeads == Max2(1, numClusterHeads)
        numEndNodes == count - actualNumClusterHeads
        side == Min2(CanvasWidth, CanvasHeight)
        baseStation == createNode(count, CanvasWidth \div 2, Padding \div 2,
                                  BASE_STATION, seed)
        clusterHeadType == IF includeRouters THEN ROUTER ELSE NODE
        \* radius = side / 3.5
        clusterHubs ==
            [c \in 1..actualNumClusterHeads |->
                createNode(numEndNodes + c - 1,
                    CanvasWidth \div 2
                      + RoundDiv(10 * side * Cos1000(c - 1, actualNumClusterHeads),
                                 35 * 1000),
                    CanvasHeight \div 2
                      + RoundDiv(10 * side * Sin1000(c - 1, actualNumClusterHeads),
                                 35 * 1000),
                    clusterHeadType, seed)]
        perCluster == numEndNodes \div actualNumClusterHeads
        nodesInThisCluster(c) ==
            IF c = actualNumClusterHeads
            THEN numEndNodes - (actualNumClusterHeads - 1) * perCluster
            ELSE perCluster
        \* clusterRadius = side / (heads * 1.8); angle and radius are drawn
        members(c) ==
            [i \in 1..nodesInThisCluster(c) |->
                LET nodesPlaced == (c - 1) * perCluster + i - 1
                    angle == Rand(seed, nodesPlaced, 0)
                    radius == Rand(seed, nodesPlaced, 1)
                    scale == 1000 * RandRes * 18 * actualNumClusterHeads
                IN createNode(nodesPlaced,
                       clusterHubs[c].x
                         + RoundDiv(Cos1000(angle, RandRes) * radius * 10 * side,
                                    scale),
                       clusterHubs[c].y
                         + RoundDiv(Sin1000(angle, RandRes) * radius * 10 * side,
                                    scale),
                       NODE, seed)]
        allClusterNodes ==
            [c \in 1..actualNumClusterHeads |-> <<clusterHubs[c]>> \o members(c)]
        memberLinks ==
            Concat([c \in 1..actualNumClusterHeads |->
                      [i \in 1..nodesInThisCluster(c) |->
                          MkConn(members(c)[i].id, clusterHubs[c].id)]])
        hubLinks ==
            Concat([i \in 1..actualNumClusterHeads |->
                      <<MkConn(clusterHubs[i].id, baseStation.id)>>
                      \o [j \in 1..(actualNumClusterHeads - i) |->
                            MkConn(clusterHubs[i].id, clusterHubs[i + j].id)]])
    IN [nodes |-> <<baseStation>> \o clusterHubs
                  \o Concat([c \in 1..actualNumClusterHeads |-> members(c)]),
        connections |->
            (IF topology = "cluster" THEN memberLinks
             ELSE ClusterMesh(allClusterNodes, 1, <<>>)) \o hubLinks,
        clusterHeadIds |->
            [c \in 1..actualNumClusterHeads |-> clusterHubs[c].id]]

\* lines 601-646: 'random' and 'mesh'
RandomNetwork(count, topology, includeRouters, includeSwitches, seed) ==
    LET baseStation == createNode(count, CanvasWidth \div 2, Padding,
                                  BASE_STATION, seed)
        numRouters == IF includeRouters THEN Max2(1, count \div 25) ELSE 0
        numSwitches == IF includeSwitches THEN Max2(1, count \div 30) ELSE 0
        numEndNodes == count - numRouters - numSwitches
        placed(i, type) ==
            createNode(i,
                RoundDiv(Rand(seed, i, 0) * CanvasWidth, RandRes) + Padding \div 2,
                RoundDiv(Rand(seed, i, 1) * CanvasHeight, RandRes) + Padding \div 2,
                type, seed)
        newNodes ==
            <<baseStation>>
            \o [i \in 1..numEndNodes |-> placed(i - 1, NODE)]
            \o [i \in 1..numRouters |-> placed(numEndNodes + i - 1, ROUTER)]
            \o [i \in 1..numSwitches |->
                   placed(numEndNodes + numRouters + i - 1, SWITCH)]
        infraNodes == SelectSeq(newNodes, LAMBDA n : n.type # NODE)
        endNodes == SelectSeq(newNodes, LAMBDA n : n.type = NODE)
        infraLinks ==
            Concat([i \in 1..Len(infraNodes) |->
                      [j \in 1..(Len(infraNodes) - i) |->
                          MkConn(infraNodes[i].id, infraNodes[i + j].id)]])
        endLinks ==
            Concat([i \in 1..Len(endNodes) |->
                      LET node == endNodes[i]
                          potentialTargets ==
                              infraNodes
                              \o SelectSeq(endNodes, LAMBDA n : n.id # node.id)
                      IN IF potentialTargets = <<>> THEN <<>>
                         ELSE <<MkConn(node.id,
                                  SortByDistance(potentialTargets, node)[1].id)>>])
        meshableNodes == SelectSeq(newNodes, LAMBDA n : n.type # BASE_STATION)
    IN [nodes |-> newNodes,
        connections |->
            IF topology = "mesh"
            THEN ConnectNearest(meshableNodes, 1, K_NEAREST,
                                infraLinks \o endLinks)
            ELSE infraLinks \o endLinks,
        clusterHeadIds |-> <<>>]

\* lines 648-678: 'grid'
GridNetwork(count, includeRouters, seed) ==
    LET baseStation == createNode(count, CanvasWidth \div 2, Padding,
                                  BASE_STATION, seed)
        numRouters == IF includeRouters THEN Max2(1, count \div 25) ELSE 0
        \* ceil(sqrt(count * canvasWidth / canvasHeight))
        cols == CHOOSE c \in 1..(count + 1) :
                    /\ c * c * CanvasHeight >= count * CanvasWidth
                    /\ (c - 1) * (c - 1) * CanvasHeight < count * CanvasWidth
        rows == CeilDiv(count, cols)
        row(i) == i \div cols
        col(i) == i % cols
        routerPlace(i) ==
            /\ row(i) > 0 /\ col(i) > 0
            /\ row(i) < rows - 1 /\ col(i) < cols - 1
            /\ row(i) % 3 = 1 /\ col(i) % 3 = 1
        routerPlaced(i) == Cardinality({j \in 0..(i - 1) : routerPlace(j)})
        gridNodes ==
            [k \in 1..count |->
                LET i == k - 1
                IN createNode(i,
                       RoundDiv((col(i) + 1) * CanvasWidth, cols + 1),
                       RoundDiv((row(i) + 1) * CanvasHeight, rows + 1),
                       IF /\ includeRouters /\ routerPlaced(i) < numRouters
                          /\ routerPlace(i)
                       THEN ROUTER ELSE NODE,
                       seed)]
    IN [nodes |-> <<baseStation>> \o gridNodes,
        connections |->
            IF Len(gridNodes) > 0
            THEN <<MkConn(baseStation.id,
                          SortByDistance(gridNodes, baseStation)[1].id)>>
            ELSE <<>>,
        clusterHeadIds |-> <<>>]

\* a slip that would leave the ring open: no connection from the last ring
\* node back to the first
RingBusNetwork_OpenRing(count, topology, seed) ==
    LET centerX == CanvasWidth \div 2 + Padding \div 2
        centerY == CanvasHeight \div 2 + Padding \div 2
        baseStation == createNode(count, centerX, Padding, BASE_STATION, seed)
        radius == Min2(CanvasWidth, CanvasHeight) \div 2 - Padding
        topologyNodes ==
            IF topology = "ring"
            THEN [k \in 1..count |->
                     createNode(k - 1,
                         centerX + RoundDiv(radius * Cos1000(k - 1, count), 1000),
                         centerY + RoundDiv(radius * Sin1000(k - 1, count), 1000),
                         NODE, seed)]
            ELSE [k \in 1..count |->
                     createNode(k - 1,
                         RoundDiv(k * CanvasWidth, count + 1) + Padding \div 2,
                         centerY, NODE, seed)]
        links ==
            IF topology = "ring"
            THEN [k \in 1..(count - 1) |->
                     MkConn(topologyNodes[k].id, topologyNodes[k + 1].id)]
            ELSE [k \in 1..(count - 1) |->
                     MkConn(topologyNodes[k].id, topologyNodes[k + 1].id)]
        sorted == SortByDistance(topologyNodes, baseStation)
    IN [nodes |-> <<baseStation>> \o sorted,
        connections |->
            IF Len(topologyNodes) > 0
            THEN links \o <<MkConn(baseStation.id, sorted[1].id)>>
            ELSE links,
        clusterHeadIds |-> <<>>]

\* lines 680-710: 'ring' and 'bus'
RingBusNetwork(count, topology, seed) ==
    LET centerX == CanvasWidth \div 2 + Padding \div 2
        centerY == CanvasHeight \div 2 + Padding \div 2
        baseStation == createNode(count, centerX, Padding, BASE_STATION, seed)
        radius == Min2(CanvasWidth, CanvasHeight) \div 2 - Padding
        topologyNodes ==
            IF topology = "ring"
            THEN [k \in 1..count |->
                     createNode(k - 1,
                         centerX + RoundDiv(radius * Cos1000(k - 1, count), 1000),
                         centerY + RoundDiv(radius * Sin1000(k - 1, count), 1000),
                         NODE, seed)]
            ELSE [k \in 1..count |->
                     createNode(k - 1,
                         RoundDiv(k * CanvasWidth, count + 1) + Padding \div 2,
                         centerY, NODE, seed)]
        links ==
            IF topology = "ring"
            THEN [k \in 1..count |->
                     MkConn(topologyNodes[k].id, topologyNodes[(k % count) + 1].id)]
            ELSE [k \in 1..(count - 1) |->
                     MkConn(topologyNodes[k].id, topologyNodes[k + 1].id)]
        sorted == SortByDistance(topologyNodes, baseStation)
    IN [nodes |-> <<baseStation>> \o sorted,
        connections |->
            IF Len(topologyNodes) > 0
            THEN links \o <<MkConn(baseStation.id, sorted[1].id)>>
            ELSE links,
        clusterHeadIds |-> <<>>]

\* a slip that would make the hub of the star a router
StarNetwork_RouterHub(count, seed) ==
    LET centerX == CanvasWidth \div 2 + Padding \div 2
        centerY == CanvasHeight \div 2 + Padding \div 2
        hubNode == createNode(0, centerX, centerY, ROUTER, seed)
        peripheralCount == count - 1
        radius == Min2(CanvasWidth, CanvasHeight) \div 2 - Padding
        pNodes ==
            [k \in 1..peripheralCount |->
                createNode(k,
                    centerX + RoundDiv(radius * Cos1000(k - 1, peripheralCount), 1000),
                    centerY + RoundDiv(radius * Sin1000(k - 1, peripheralCount), 1000),
                    NODE, seed)]
    IN [nodes |-> <<hubNode>> \o pNodes,
        connections |-> [k \in 1..peripheralCount |->
                            MkConn(pNodes[k].id, hubNode.id)],
        clusterHeadIds |-> <<>>]

\* lines 712-729: 'star'
StarNetwork(count, seed) ==
    LET centerX == CanvasWidth \div 2 + Padding \div 2
        centerY == CanvasHeight \div 2 + Padding \div 2
        hubNode == createNode(0, centerX, centerY, BASE_STATION, seed)
        peripheralCount == count - 1
        radius == Min2(CanvasWidth, CanvasHeight) \div 2 - Padding
        pNodes ==
            [k \in 1..peripheralCount |->
                createNode(k,
                    centerX + RoundDiv(radius * Cos1000(k - 1, peripheralCount), 1000),
                    centerY + RoundDiv(radius * Sin1000(k - 1, peripheralCount), 1000),
                    NODE, seed)]
    IN [nodes |-> <<hubNode>> \o pNodes,
        connections |-> [k \in 1..peripheralCount |->
                            MkConn(pNodes[k].id, hubNode.id)],
        clusterHeadIds |-> <<>>]

\* lines 499-732: the nodes, the connections and the cluster-head ids that
\* an accepted request sets
generateNetwork(count, topology, includeRouters, includeSwitches, numClusterHeads, seed) ==
    CASE topology \in {"cluster", "cluster-mesh"} ->
            ClusterNetwork(count, topology, includeRouters, numClusterHeads, seed)
      [] topology \in {"random", "mesh"} ->
            RandomNetwork(count, topology, includeRouters, includeSwitches, seed)
      [] topology = "grid" -> GridNetwork(count, includeRouters, seed)
      [] topology \in {"ring", "bus"} -> RingBusNetwork(count, topology, seed)
      [] topology = "star" -> StarNetwork(count, seed)
      [] OTHER -> [nodes |-> <<>>, connections |-> <<>>, clusterHeadIds |-> <<>>]

\* ------------------------------------------------------------ input sets
\* Candidate connections over the ids pool (a sequence of ids): one per
\* unordered pair of distinct ids, listed in a fixed order; the pair (i, j)
\* is oriented from i to j when i + j is even and from j to i otherwise, so
\* that lists mix both orientations.
PairKeys(pool) ==
    {<<i, j>> : i \in 1..Len(pool), j \in 1..Len(pool)} \cap
    {p \in (1..Len(pool)) \X (1..Len(pool)) : p[1] < p[2]}

PairConn(pool, p) ==
    IF (p[1] + p[2]) % 2 = 0 THEN MkConn(pool[p[1]], pool[p[2]])
    ELSE MkConn(pool[p[2]], pool[p[1]])

PairLess(p, q) == p[1] < q[1] \/ (p[1] = q[1] /\ p[2] < q[2])

RECURSIVE PairsToConns(_, _)
PairsToConns(pool, S) ==
    IF S = {} THEN <<>>
    ELSE LET m == CHOOSE x \in S : \A y \in S \ {x} : PairLess(x, y)
         IN <<PairConn(pool, m)>> \o PairsToConns(pool, S \ {m})

\* connection lists of at most k connections between distinct ids of pool
ConnLists(pool, k) ==
    {PairsToConns(pool, S) : S \in {T \in SUBSET PairKeys(pool) :
                                       Cardinality(T) <= k}}

\* node lists <<pool[1], ..., pool[k]>>, every node of a kind (type, isEnabled)
\* drawn from kinds, at position (0, 0)
NodeLists(pool, kinds) ==
    UNION {{[i \in 1..k |-> MkNode(pool[i], f[i][1], f[i][2], 0, 0, 100)] :
              f \in [1..k -> kinds]} : k \in 0..Len(pool)}

\* the ids of S in the order of AllIds, as a sequence
AllIds == <<"n1", "n2", "n3", "n4", "n5", GhostId>>

RECURSIVE IdsInOrder(_, _)
IdsInOrder(pool, S) ==
    IF pool = <<>> THEN <<>>
    ELSE (IF Head(pool) \in S THEN <<Head(pool)>> ELSE <<>>)
         \o IdsInOrder(Tail(pool), S)

\* the ids S followed by the ghost id
PathPoolOf(S) == IdsInOrder(AllIds, S \cup {GhostId})

\* id lists without repetition, of at most k ids of pool, in pool order

IdLists(pool, k) ==
    {IdsInOrder(pool, S) : S \in {T \in SUBSET Range(pool) : Cardinality(T) <= k}}

\* -------------------------------------------------------------- JSON text
\* A JSON value is a kind with its content: the items of an array are a
\* sequence of JSON values, the members of an object a function from their
\* keys to JSON values.  A text is valid JSON with its value, or it is not.
JNull == [kind |-> "null", value |-> Null]
JNumber(n) == [kind |-> "number", value |-> n]
JString(s) == [kind |-> "string", value |-> s]
JBoolean(b) == [kind |-> "boolean", value |-> b]
JArray(items) == [kind |-> "array", value |-> items]
JObject(members) == [kind |-> "object", value |-> members]

\* what reading a member that a value does not have yields
Undefined == [kind |-> "undefined", value |-> Null]

JsonText(j) == [valid |-> TRUE, json |-> j]
NotJson == [valid |-> FALSE, json |-> JNull]

\* the kinds of the fields of a node and of a connection (types.ts); every
\* other field is a string
NumberFields == {"x", "y", "energyEfficiency", "energySpent"}
BooleanFields == {"isEnabled", "isMalicious"}

\* a serialiser that would leave out the members that are false
JsonOfRecord_FalseOmitted(o) ==
    JObject([k \in {f \in DOMAIN o : ~(f \in BooleanFields /\ o[f] = FALSE)} |->
               IF k \in NumberFields THEN JNumber(o[k])
               ELSE IF k \in BooleanFields THEN JBoolean(o[k])
               ELSE JString(o[k])])

\* JSON.stringify of a node or a connection: every field that is present
\* becomes a member; the numbers of this module are finite and become
\* number literals
JsonOfRecord(o) ==
    JObject([k \in DOMAIN o |->
               IF k \in NumberFields THEN JNumber(o[k])
               ELSE IF k \in BooleanFields THEN JBoolean(o[k])
               ELSE JString(o[k])])

\* handleSaveNetwork lines 1162-1166: JSON.stringify({ nodes, connections })
StringifyGraph(ns, cs) ==
    JsonText(JObject(
        "nodes" :> JArray([i \in DOMAIN ns |-> JsonOfRecord(ns[i])])
        @@ "connections" :> JArray([i \in DOMAIN cs |-> JsonOfRecord(cs[i])])))

\* the JavaScript value that JSON.parse builds from a JSON value
RECURSIVE ValueOf(_)
ValueOf(j) ==
    CASE j.kind = "array" -> [i \in DOMAIN j.value |-> ValueOf(j.value[i])]
      [] j.kind = "object" -> [k \in DOMAIN j.value |-> ValueOf(j.value[k])]
      [] j.kind = "null" -> Null
      [] OTHER -> j.value

\* data.key for the parsed JSON value j, which is not null
Member(j, key) ==
    IF j.kind = "object" /\ key \in DOMAIN j.value THEN j.value[key]
    ELSE Undefined

\* a check that would look at the nodes only
IsNetworkData_NodesOnly(j) ==
    /\ j.kind # "null"
    /\ Member(j, "nodes").kind = "array"

\* handleLoadNetwork lines 1218 and 1221: reading data.nodes of null throws,
\* otherwise both members have to be arrays
IsNetworkData(j) ==
    /\ j.kind # "null"
    /\ Member(j, "nodes").kind = "array"
    /\ Member(j, "connections").kind = "array"

\* the value that setNodes or setConnections is given at lines 1224-1225
LoadedList(j, key) ==
    IF Member(j, key).kind = "undefined" THEN Null
    ELSE ValueOf(Member(j, key))

\* performSave lines 1172-1182: the content is JSON and has both arrays
IsSavable(text) ==
    /\ text.valid
    /\ Member(text.json, "nodes").kind = "array"
    /\ Member(text.json, "connections").kind = "array"

\* file.name.toLowerCase().endsWith('.json') for the file names used
IsJsonName(name) == name \in {"network.json", "NETWORK.JSON"}

\* ------------------------------------------------------- workspace state
\* App.tsx MAX_HISTORY_SIZE
MAX_HISTORY_SIZE == 20

\* a slip that would keep every snapshot
saveSnapshot_Unbounded(h, ns, cs) ==
    Append(h, [nodes |-> ns, connections |-> cs])

\* App.saveSnapshot: the current graph is appended to the history h, of
\* which the newest MAX_HISTORY_SIZE snapshots are kept
saveSnapshot(h, ns, cs) ==
    LET newHistory == Append(h, [nodes |-> ns, connections |-> cs])
    IN IF Len(newHistory) > MAX_HISTORY_SIZE
       THEN SubSeq(newHistory, Len(newHistory) - MAX_HISTORY_SIZE + 1,
                   Len(newHistory))
       ELSE newHistory

\* the analysis state of the workspace before any analysis
NoAnalysis ==
    [analysisResult |-> Null, simulationParams |-> Null, insights |-> Null,
     hasAnalyzedOnce |-> FALSE, isolatedMaliciousNodeIds |-> <<>>]

\* VisualBuilderWorkspace.clearAnalysis, the analysis state; the node
\* mobility that it stops is outside the state of this module
clearAnalysis(a) ==
    [a EXCEPT !.analysisResult = Null, !.simulationParams = Null,
              !.insights = Null, !.hasAnalyzedOnce = FALSE,
              !.isolatedMaliciousNodeIds = <<>>]

\* no message shown yet
NoAlert == ""

\* no file written yet
NoDownload == [name |-> "", text |-> NotJson]

InitPanel ==
    /\ simulationResults = SIMULATION_RESULTS
    /\ history = <<>>
    /\ analysis = NoAnalysis
    /\ alert = NoAlert
    /\ networkDataToSave = NotJson
    /\ download = NoDownload

\* null where a node id is held otherwise: no id is the empty string
NoId == ""

\* no animation frame requested
NoFrame == Null

\* the canvas and the running work of a fresh workspace, lines 113-145
InitUi ==
    /\ isConnectionMode = FALSE
    /\ isPacketSimulationMode = FALSE
    /\ packetSimSourceNodes = <<>>
    /\ selectedNodeId = NoId
    /\ selectedConnectionId = Null
    /\ isConnecting = NoId
    /\ animatedPackets = <<>>
    /\ animationFrameRef = NoFrame
    /\ droppedPacketEvents = {}
    /\ isAnalyzing = FALSE
    /\ flows = <<>>
    /\ clock = 0

\* VisualBuilderWorkspace.clearAnalysis, the canvas: lines 169-170 and
\* 174-177 drop the packets and the selected connection and cancel the
\* animation frame
ClearAnalysisUi ==
    /\ animatedPackets' = <<>>
    /\ selectedConnectionId' = Null
    /\ animationFrameRef' = NoFrame

\* ------------------------------------------------- calls of the routines
NoCall == [op |-> "none"]
NoRequest == [result |-> "none"]
NoAdjacency == [built |-> FALSE, map |-> <<>>]
Built(adj) == [built |-> TRUE, map |-> adj]

\* pathfindingService.findShortestPath on the current graph
FindShortestPathCall(ids) ==
    /\ pc = "ready"
    /\ \E s \in ids \cup {EmptyId}, e \in ids \cup {EmptyId} :
       \E ex \in IdLists(PathPoolOf(ids), MaxExclude) :
         /\ call' = [op |-> "findShortestPath", startNodeId |-> s,
                     endNodeId |-> e, excludeNodeIds |-> ex]
         /\ ret' = findShortestPath(s, e, nodes, connections, ex)
         /\ adjacency' =
              IF \/ s = EmptyId \/ e = EmptyId \/ Len(nodes) = 0
                 \/ Includes(ex, s) \/ Includes(ex, e)
              THEN NoAdjacency
              ELSE Built(PathAdjacency(nodes, connections, ex))
    /\ pc' = "done"
    /\ UNCHANGED <<nodes, connections, clusterHeadIds, request, panel, ui>>

\* networkAnalysisService.getNetworkStats on the current graph
GetNetworkStatsCall ==
    /\ pc = "ready"
    /\ call' = [op |-> "getNetworkStats"]
    /\ ret' = getNetworkStats(nodes, connections)
    /\ adjacency' = IF Len(nodes) = 0 THEN NoAdjacency
                    ELSE Built(StatsAdjacency(nodes, connections))
    /\ pc' = "done"
    /\ UNCHANGED <<nodes, connections, clusterHeadIds, request, panel, ui>>

\* networkAnalysisService.findNetworkComponents on the current graph
FindNetworkComponentsCall ==
    /\ pc = "ready"
    /\ call' = [op |-> "findNetworkComponents"]
    /\ ret' = findNetworkComponents(nodes, connections)
    /\ adjacency' = IF Len(nodes) = 0 THEN NoAdjacency
                    ELSE Built(ComponentsAdjacency(nodes, connections))
    /\ pc' = "done"
    /\ UNCHANGED <<nodes, connections, clusterHeadIds, request, panel, ui>>

\* networkAnalysisService.identifyTopology on the current graph with the
\* cluster-head ids heads
IdentifyTopologyCall(headLists) ==
    /\ pc = "ready"
    /\ \E heads \in headLists :
         /\ call' = [op |-> "identifyTopology", clusterHeadIds |-> heads]
         /\ ret' = identifyTopology(nodes, connections, heads)
    /\ adjacency' = IF Len(nodes) < 3 THEN NoAdjacency
                    ELSE Built(TopoAdjacency(nodes, connections))
    /\ pc' = "done"
    /\ UNCHANGED <<nodes, connections, clusterHeadIds, request, panel, ui>>

\* ---------------------------------------------------------------- SpecPath
\* The four graph routines on every graph of at most three nodes n1, n2, n3
\* (plain nodes, enabled and disabled switches) and at most MaxConns
\* connections between distinct ids, the ghost id included.
PathIds == <<"n1", "n2", "n3">>
PathPool == PathPoolOf(Range(PathIds))
PathKinds == {<<NODE, TRUE>>, <<SWITCH, TRUE>>, <<SWITCH, FALSE>>}

InitPath ==
    /\ nodes \in NodeLists(PathIds, PathKinds)
    /\ connections \in ConnLists(PathPool, MaxConns)
    /\ clusterHeadIds = <<>>
    /\ request = NoRequest
    /\ pc = "ready"
    /\ call = NoCall
    /\ ret = Null
    /\ adjacency = NoAdjacency
    /\ InitPanel
    /\ InitUi

NextPath ==
    \/ GetNetworkStatsCall
    \/ FindNetworkComponentsCall
    \/ IdentifyTopologyCall({<<>>})
    \/ FindShortestPathCall(Range(PathPool))

SpecPath == InitPath /\ [][NextPath]_vars

\* ---------------------------------------------------------------- SpecTopo
\* Statistics, components and classification on every graph of at most four
\* nodes n1..n4 (end devices, switches, base stations) and at most MaxConns
\* connections between distinct ids, the ghost id included; the classifier
\* is given at most MaxHeads cluster-head ids.
MaxHeads == 1

TopoIds == <<"n1", "n2", "n3", "n4">>
TopoPool == PathPoolOf(Range(TopoIds))
TopoKinds == {<<NODE, TRUE>>, <<SWITCH, TRUE>>, <<BASE_STATION, TRUE>>}

InitTopo ==
    /\ nodes \in NodeLists(TopoIds, TopoKinds)
    /\ connections \in ConnLists(TopoPool, MaxConns)
    /\ clusterHeadIds = <<>>
    /\ request = NoRequest
    /\ pc = "ready"
    /\ call = NoCall
    /\ ret = Null
    /\ adjacency = NoAdjacency
    /\ InitPanel
    /\ InitUi

NextTopo ==
    \/ GetNetworkStatsCall
    \/ FindNetworkComponentsCall
    \/ IdentifyTopologyCall(IdLists(TopoPool, MaxHeads))

SpecTopo == InitTopo /\ [][NextTopo]_vars

\* ----------------------------------------------------------------- SpecGen
\* One generateNetwork request on the empty workspace, for every count up to
\* MaxCount (and a count over the limit), every topology, both switches of
\* the toolbar, up to MaxClusterHeads cluster heads and every random stream,
\* followed by a routine call on the generated graph; the classifier is
\* called without cluster-head ids, as handleAnalyze does, and with the ids
\* that the generator recorded.
\* a slip that would take the snapshot before the check of the limit
GenerateHistory_SnapshotFirst(count, h, ns, cs) ==
    IF count <= 0 THEN h ELSE saveSnapshot(h, ns, cs)

\* generateNetwork lines 491-496: the undo history after a request for
\* count nodes on the graph ns, cs
GenerateHistory(count, h, ns, cs) ==
    IF count <= 0 \/ count > NodeLimit THEN h ELSE saveSnapshot(h, ns, cs)

\* Toolbar.handleGenerate and VisualBuilderWorkspace.generateNetwork, lines
\* 484-735, for the inputs of the given sets.
GenerateNetworkRequest(counts, topologies, heads, seeds) ==
    /\ pc = "ready"
    /\ request = NoRequest
    /\ \E count \in counts, topology \in topologies,
          includeRouters \in BOOLEAN, includeSwitches \in BOOLEAN,
          numClusterHeads \in heads, seed \in seeds :
         LET args == [count |-> count, topology |-> topology,
                      includeRouters |-> includeRouters,
                      includeSwitches |-> includeSwitches,
                      numClusterHeads |-> numClusterHeads, seed |-> seed]
             g == generateNetwork(count, topology, includeRouters,
                                  includeSwitches, numClusterHeads, seed)
             turnedAway == count <= 0 \/ count > NodeLimit
         IN /\ history' = GenerateHistory(count, history, nodes, connections)
            /\ analysis' = IF turnedAway THEN analysis
                           ELSE clearAnalysis(analysis)
            /\ IF turnedAway
               THEN /\ request' = [result |-> "rejected", args |-> args]
                    /\ alert' = IF count > NodeLimit
                                THEN "Maximum number of nodes is 450."
                                ELSE alert
                    /\ UNCHANGED <<nodes, connections, clusterHeadIds,
                                   animatedPackets, selectedConnectionId,
                                   animationFrameRef, selectedNodeId,
                                   isConnectionMode>>
               ELSE IF /\ topology \in {"cluster", "cluster-mesh"}
                       /\ count <= Max2(1, numClusterHeads)
               THEN /\ request' = [result |-> "rejected", args |-> args]
                    /\ alert' = "Node count must be greater than the number of cluster heads."
                    /\ clusterHeadIds' = <<>>
                    /\ ClearAnalysisUi
                    /\ UNCHANGED <<nodes, connections, selectedNodeId,
                                   isConnectionMode>>
               ELSE /\ request' = [result |-> "generated", args |-> args]
                    /\ nodes' = g.nodes
                    /\ connections' = g.connections
                    /\ clusterHeadIds' = g.clusterHeadIds
                    /\ ClearAnalysisUi
                    /\ selectedNodeId' = NoId
                    /\ isConnectionMode' = FALSE
                    /\ UNCHANGED alert
    /\ UNCHANGED <<pc, call, ret, adjacency, simulationResults,
                   networkDataToSave, download, isPacketSimulationMode,
                   packetSimSourceNodes, isConnecting, droppedPacketEvents,
                   isAnalyzing, flows, clock>>

GenerateNetwork ==
    GenerateNetworkRequest((-1..MaxCount) \cup {NodeLimit + 1}, NetworkTopology,
                           0..MaxClusterHeads, 1..NumStreams)

InitGen ==
    /\ nodes = <<>>
    /\ connections = <<>>
    /\ clusterHeadIds = <<>>
    /\ request = NoRequest
    /\ pc = "ready"
    /\ call = NoCall
    /\ ret = Null
    /\ adjacency = NoAdjacency
    /\ InitPanel
    /\ InitUi

NextGen ==
    \/ GenerateNetwork
    \/ GetNetworkStatsCall
    \/ FindNetworkComponentsCall
    \/ IdentifyTopologyCall({<<>>, clusterHeadIds})

SpecGen == InitGen /\ [][NextGen]_vars

\* ----------------------------------------------------------------- SpecSim
\* Calls of simulatePerformance, one after the other, on node lists of at
\* most MaxEndNodes end devices of the efficiencies SimEfficiencies with the
\* routers, base stations and switches of SimInfra, and on a workspace
\* filled to the limit with routers; every call passes a topology label and
\* the ids of the first nodes, at most MaxMalicious, as the malicious ids.
MaxEndNodes == 2
MaxMalicious == 4

SimEfficiencies == {0, 80, 100}

\* <<routers, base stations, switches>>
SimInfra == {<<0, 0, 0>>, <<1, 0, 0>>, <<2, 1, 1>>}

SimTopologies ==
    {"Cluster Mesh Topology", "Cluster Topology", "Mesh Topology",
     "Star Topology", "Grid Topology", "Ring Topology", "Bus Topology",
     "Hybrid Topology"}

SimGroup(type, prefix, n, eff) ==
    [i \in 1..n |-> MkNode(prefix \o ToString(i), type, TRUE, 20 * i, 20 * i, eff)]

SimNodes(effs, infra) ==
    [i \in 1..Len(effs) |->
        MkNode("node-" \o ToString(i), NODE, TRUE, 10 * i, 10, effs[i])]
    \o SimGroup(ROUTER, "router-", infra[1], 100)
    \o SimGroup(BASE_STATION, "base_station-", infra[2], 100)
    \o SimGroup(SWITCH, "switch-", infra[3], 100)

RouterField == SimGroup(ROUTER, "router-", NodeLimit, 100)

SimNodeLists ==
    {SimNodes(effs, infra) :
        effs \in UNION {[1..n -> SimEfficiencies] : n \in 0..MaxEndNodes},
        infra \in SimInfra}
    \cup {RouterField}

SimOp == "simulatePerformance"

\* networkAnalysisService.simulatePerformance on the current graph, called
\* once and once again; the call record keeps the arguments and the call
\* made before it
SimulatePerformanceCall ==
    /\ pc \in {"ready", "done"}
    /\ \E topology \in SimTopologies,
          k \in 0..Min2(MaxMalicious, Len(nodes)) :
         LET maliciousNodeIds == [i \in 1..k |-> nodes[i].id]
             out == simulatePerformance(simulationResults, topology, nodes,
                                        connections, maliciousNodeIds)
         IN /\ call' = [op |-> SimOp,
                        args |-> [topology |-> topology, nodes |-> nodes,
                                  connections |-> connections,
                                  maliciousNodeIds |-> maliciousNodeIds],
                        before |-> IF call.op = SimOp
                                   THEN [op |-> SimOp, args |-> call.args,
                                         ret |-> ret]
                                   ELSE NoCall]
            /\ ret' = out
            /\ simulationResults' = ResultsAfter(simulationResults, out)
    /\ pc' = IF pc = "ready" THEN "done" ELSE "repeated"
    /\ UNCHANGED <<nodes, connections, clusterHeadIds, request, adjacency,
                   history, analysis, alert, networkDataToSave, download, ui>>

InitSim ==
    /\ nodes \in SimNodeLists
    /\ connections = IF Len(nodes) >= 2
                     THEN <<MkConn(nodes[1].id, nodes[2].id)>>
                     ELSE <<>>
    /\ clusterHeadIds = <<>>
    /\ request = NoRequest
    /\ pc = "ready"
    /\ call = NoCall
    /\ ret = Null
    /\ adjacency = NoAdjacency
    /\ InitPanel
    /\ InitUi

NextSim == SimulatePerformanceCall

SpecSim == InitSim /\ [][NextSim]_vars

\* ---------------------------------------------------------------- SpecWork
\* The workspace around a graph that was generated before (a ring of three,
\* a cluster of four with its recorded cluster head) or around the empty
\* graph of a fresh start, analysed or not: one generation request or one
\* load of a file, with saves and undos before, between and after.

\* App.handleUndo as a function of the history and the graph, with the
\* early return of line 27
handleUndo(h, ns, cs) ==
    IF Len(h) = 0 THEN [nodes |-> ns, connections |-> cs, history |-> h]
    ELSE [nodes |-> h[Len(h)].nodes, connections |-> h[Len(h)].connections,
          history |-> SubSeq(h, 1, Len(h) - 1)]

\* App.handleUndo from the Undo button, which is disabled while the history
\* is empty
HandleUndo ==
    /\ history # <<>>
    /\ nodes' = history[Len(history)].nodes
    /\ connections' = history[Len(history)].connections
    /\ history' = SubSeq(history, 1, Len(history) - 1)
    /\ UNCHANGED <<clusterHeadIds, request, pc, call, ret, adjacency,
                   simulationResults, analysis, alert, networkDataToSave,
                   download, ui>>

\* VisualBuilderWorkspace.handleSaveNetwork
HandleSaveNetwork ==
    /\ Len(nodes) # 0
    /\ networkDataToSave' = StringifyGraph(nodes, connections)
    /\ UNCHANGED <<nodes, connections, clusterHeadIds, request, pc, call,
                   ret, adjacency, simulationResults, history, analysis,
                   alert, download, ui>>

\* the texts that the save dialog may hold instead of the one it was given
EditedTexts == {NotJson, JsonText(JNumber(5))}

\* VisualBuilderWorkspace.performSave with the content of the save dialog,
\* which was opened by handleSaveNetwork
PerformSave ==
    /\ networkDataToSave.valid
    /\ \E fileName \in {"network", "network.json"},
          content \in {networkDataToSave} \cup EditedTexts :
         IF ~content.valid
         THEN /\ alert' = "The content is not valid JSON. Please correct it before saving."
              /\ UNCHANGED download
         ELSE IF ~IsSavable(content)
         THEN /\ alert' = "Invalid network structure. The JSON must contain 'nodes' and 'connections' arrays."
              /\ UNCHANGED download
         ELSE /\ download' = [name |-> "network.json", text |-> content]
              /\ UNCHANGED alert
    /\ UNCHANGED <<nodes, connections, clusterHeadIds, request, pc, call,
                   ret, adjacency, simulationResults, history, analysis,
                   networkDataToSave, ui>>

\* the files offered to the loader besides the one that a save wrote
LoadFiles ==
    {[name |-> "notes.txt", text |-> NotJson],
     [name |-> "network.json", text |-> NotJson],
     [name |-> "network.json", text |-> JsonText(JNull)],
     [name |-> "network.json", text |-> JsonText(JNumber(5))],
     [name |-> "NETWORK.JSON",
      text |-> JsonText(JObject("nodes" :> JArray(<<>>)))],
     [name |-> "network.json",
      text |-> JsonText(JObject("connections" :> JArray(<<>>)))],
     [name |-> "network.json",
      text |-> JsonText(JObject("nodes" :> JString("n1")
                                @@ "connections" :> JArray(<<>>)))],
     [name |-> "network.json",
      text |-> JsonText(JObject("nodes" :> JArray(<<>>)
                                @@ "connections" :> JObject(<<>>)))],
     [name |-> "network.json",
      text |-> JsonText(JObject("nodes" :> JArray(<<>>)
                                @@ "connections" :> JArray(<<>>)))],
     [name |-> "network.json",
      text |-> StringifyGraph(<<MkNode("n1", NODE, TRUE, 100, 100, 90)>>, <<>>)]}

\* VisualBuilderWorkspace.handleLoadNetwork up to reader.readAsText: the
\* callbacks of the reader keep the saveSnapshot of this render, that is the
\* graph of this moment
HandleLoadNetwork ==
    /\ pc = "ready"
    /\ request = NoRequest
    /\ \E file \in LoadFiles \cup {f \in {download} : f # NoDownload} :
         IF ~IsJsonName(file.name)
         THEN /\ alert' = "Invalid file type. Please select a valid network configuration file (.json)."
              /\ request' = [result |-> "refused", file |-> file]
         ELSE /\ request' = [result |-> "reading", file |-> file,
                             nodes |-> nodes, connections |-> connections]
              /\ UNCHANGED alert
    /\ UNCHANGED <<nodes, connections, clusterHeadIds, pc, call, ret,
                   adjacency, simulationResults, history, analysis,
                   networkDataToSave, download, ui>>

\* reader.onload of handleLoadNetwork, lines 1212-1240
ReaderOnLoad ==
    /\ request.result = "reading"
    /\ LET text == request.file.text
       IN IF text.valid /\ IsNetworkData(text.json)
          THEN /\ history' = saveSnapshot(history, request.nodes,
                                          request.connections)
               /\ analysis' = clearAnalysis(analysis)
               /\ nodes' = LoadedList(text.json, "nodes")
               /\ connections' = LoadedList(text.json, "connections")
               /\ alert' = "Successfully loaded network"
               /\ request' = [result |-> "loaded", file |-> request.file]
               /\ ClearAnalysisUi
          ELSE /\ alert' = "Error loading file"
               /\ request' = [result |-> "load failed", file |-> request.file]
               /\ UNCHANGED <<nodes, connections, history, analysis,
                              animatedPackets, selectedConnectionId,
                              animationFrameRef>>
    /\ UNCHANGED <<clusterHeadIds, pc, call, ret, adjacency,
                   simulationResults, networkDataToSave, download,
                   isConnectionMode, isPacketSimulationMode,
                   packetSimSourceNodes, selectedNodeId, isConnecting,
                   droppedPacketEvents, isAnalyzing, flows, clock>>

\* reader.onerror of handleLoadNetwork, lines 1241-1246
ReaderOnError ==
    /\ request.result = "reading"
    /\ alert' = "Failed to read the file"
    /\ request' = [result |-> "read error", file |-> request.file]
    /\ UNCHANGED <<nodes, connections, clusterHeadIds, pc, call, ret,
                   adjacency, simulationResults, history, analysis,
                   networkDataToSave, download, ui>>

EmptyGraph == [nodes |-> <<>>, connections |-> <<>>, clusterHeadIds |-> <<>>]

WorkGraphs ==
    {EmptyGraph,
     generateNetwork(3, "ring", FALSE, FALSE, 0, 1),
     generateNetwork(4, "cluster", TRUE, FALSE, 1, 1)}

\* the analysis state that handleAnalyze leaves when it has finished on the
\* graph g without malicious nodes (lines 816-871)
Analysed(g) ==
    LET topology == identifyTopology(g.nodes, g.connections, <<>>)
    IN [analysisResult |-> [topology |-> topology, description |-> "description"],
        simulationParams |-> simulatePerformance(SIMULATION_RESULTS, topology,
                                                 g.nodes, g.connections, <<>>),
        insights |-> "insights",
        hasAnalyzedOnce |-> TRUE,
        isolatedMaliciousNodeIds |-> <<>>]

InitWork ==
    /\ \E g \in WorkGraphs :
         /\ nodes = g.nodes
         /\ connections = g.connections
         /\ clusterHeadIds = g.clusterHeadIds
         /\ history = IF g = EmptyGraph THEN <<>>
                      ELSE <<[nodes |-> <<>>, connections |-> <<>>]>>
         /\ analysis \in IF g = EmptyGraph THEN {NoAnalysis}
                         ELSE {NoAnalysis, Analysed(g)}
    /\ request = NoRequest
    /\ pc = "ready"
    /\ call = NoCall
    /\ ret = Null
    /\ adjacency = NoAdjacency
    /\ simulationResults = SIMULATION_RESULTS
    /\ alert = NoAlert
    /\ networkDataToSave = NotJson
    /\ download = NoDownload
    /\ InitUi

NextWork ==
    \/ GenerateNetworkRequest({0, 1, 3, NodeLimit + 1}, {"cluster", "ring"},
                              {1, 3}, {1})
    \/ HandleUndo
    \/ HandleSaveNetwork
    \/ PerformSave
    \/ HandleLoadNetwork
    \/ ReaderOnLoad
    \/ ReaderOnError

SpecWork == InitWork /\ [][NextWork]_vars

\* ----------------------------------------------------- editing the graph
\* VisualBuilderWorkspace WEAK_NODE_EFFICIENCY_THRESHOLD
WEAK_NODE_EFFICIENCY_THRESHOLD == 85

\* type.toLowerCase()
LowerCase(type) ==
    CASE type = NODE -> "node"
      [] type = ROUTER -> "router"
      [] type = SWITCH -> "switch"
      [] type = BASE_STATION -> "base_station"

\* `${type.toLowerCase()}-${Date.now()}` for the stamp t; the t keeps the
\* stamped ids apart from the ids of generated nodes
StampedId(type, t) == LowerCase(type) \o "-t" \o ToString(t)

\* addNode lines 455-479: the component dropped at x, y; eff is the value
\* that Math.round(80 + Math.random() * 20) gives an end device
addNode(type, x, y, eff, t) ==
    MkNode(StampedId(type, t), type, TRUE, x, y,
           IF type = NODE THEN eff ELSE 100)

\* the connection id `${from}-${to}-${Date.now()}` is held as the pair of
\* its ends: no handler makes two connections with the same ends and
\* direction in one list
ConnId(c) == <<c.from, c.to>>

\* deleteSelectedConnection line 206
WithoutConnection(cs, id) == SelectSeq(cs, LAMBDA c : ConnId(c) # id)

\* deleteSelectedNode line 215
ConnectionsWithoutNode(cs, id) ==
    SelectSeq(cs, LAMBDA c : c.from # id /\ c.to # id)

\* deleteSelectedNode line 214
WithoutNode(ns, id) == SelectSeq(ns, LAMBDA n : n.id # id)

\* handleAutoConnect lines 764-778: the connections of sourceNode to its
\* first targets, unless the pair was connected before in this pass
RECURSIVE AutoConnectTargets(_, _, _)
AutoConnectTargets(acc, sourceNode, targets) ==
    IF targets = <<>> THEN acc
    ELSE LET pair == {sourceNode.id, Head(targets).id}
         IN AutoConnectTargets(
                IF pair \in acc.connectedPairs THEN acc
                ELSE [newConnections |->
                          Append(acc.newConnections,
                                 MkConn(sourceNode.id, Head(targets).id)),
                      connectedPairs |-> acc.connectedPairs \cup {pair}],
                sourceNode, Tail(targets))

\* handleAutoConnect lines 752-779: the loop over the nodes from i on
RECURSIVE AutoConnectFrom(_, _, _, _)
AutoConnectFrom(i, ns, maxNeighbors, acc) ==
    IF i > Len(ns) THEN acc
    ELSE LET sourceNode == ns[i]
             distances == SortByDistance(
                              SelectSeq(ns, LAMBDA n : n.id # sourceNode.id),
                              sourceNode)
         IN AutoConnectFrom(i + 1, ns, maxNeighbors,
                AutoConnectTargets(acc, sourceNode,
                    SubSeq(distances, 1, Min2(maxNeighbors, Len(distances)))))

\* handleAutoConnect lines 745-781: the connections that replace the
\* current ones, for at least two nodes and k > 0
handleAutoConnect(k, ns) ==
    AutoConnectFrom(1, ns, Min2(k, Len(ns) - 1),
                    [newConnections |-> <<>>, connectedPairs |-> {}]
                   ).newConnections

\* handleRouterAutoConnect line 801, K_NEAREST
ROUTER_K_NEAREST == 3

\* handleRouterAutoConnect lines 785-806: the connections from the router
\* to its nearest nodes that no connection joins to it yet; none when the
\* router is no node
RouterConnections(routerId, ns, cs) ==
    IF routerId \notin NodeIdsOf(ns) THEN <<>>
    ELSE LET routerNode == ns[CHOOSE i \in DOMAIN ns :
                                  /\ ns[i].id = routerId
                                  /\ \A j \in 1..(i - 1) : ns[j].id # routerId]
             connectedNodeIds ==
                 UNION {{cs[i].from, cs[i].to} :
                          i \in {j \in DOMAIN cs : \/ cs[j].from = routerId
                                                    \/ cs[j].to = routerId}}
             unconnectedNodes ==
                 SelectSeq(ns, LAMBDA n : /\ n.id # routerId
                                          /\ n.id \notin connectedNodeIds)
             distances == SortByDistance(unconnectedNodes, routerNode)
         IN [i \in 1..Min2(ROUTER_K_NEAREST, Len(distances)) |->
                MkConn(routerId, distances[i].id)]

\* handleReconstruct lines 1018-1020
WeakNodeIds(ns) ==
    LET weak == SelectSeq(ns, LAMBDA n :
                    /\ n.type = NODE
                    /\ n.energyEfficiency < WEAK_NODE_EFFICIENCY_THRESHOLD)
    IN [i \in DOMAIN weak |-> weak[i].id]

\* lines 1039-1046 and 1069-1077: the first of heads at the least distance
\* from p
ClosestHead(p, heads) ==
    heads[CHOOSE i \in DOMAIN heads :
              /\ \A j \in DOMAIN heads : Dist2(heads[i], p) <= Dist2(heads[j], p)
              /\ \A j \in 1..(i - 1) : Dist2(heads[j], p) > Dist2(heads[i], p)]

\* lines 1052-1066: from position i on, every head is connected to its two
\* nearest other heads unless a connection joins the pair already
RECURSIVE ConnectHeads(_, _, _)
ConnectHeads(i, heads, conns) ==
    IF i > Len(heads) THEN conns
    ELSE LET head == heads[i]
             otherHeads == SortByDistance(
                               SelectSeq(heads, LAMBDA h : h.id # head.id),
                               head)
         IN ConnectHeads(i + 1, heads,
                ConnectIfAbsent(conns, head,
                    SubSeq(otherHeads, 1, Min2(2, Len(otherHeads)))))

\* lines 1030-1085: the connections of the cluster branch
ReconnectCluster(newNodes, heads, weakNodeIds) ==
    LET remainingClusterHeads ==
            SelectSeq(newNodes, LAMBDA n : /\ Includes(heads, n.id)
                                           /\ ~Includes(weakNodeIds, n.id))
        baseStations == SelectSeq(newNodes, LAMBDA n : n.type = BASE_STATION)
        endNodes ==
            SelectSeq(newNodes, LAMBDA n :
                /\ n.type = NODE
                /\ \A k \in DOMAIN remainingClusterHeads :
                       remainingClusterHeads[k].id # n.id)
    IN IF Len(remainingClusterHeads) > 0 /\ baseStations # <<>>
       THEN LET baseStation == baseStations[1]
                toHeads == [i \in DOMAIN endNodes |->
                               MkConn(endNodes[i].id,
                                      ClosestHead(endNodes[i],
                                                  remainingClusterHeads).id)]
                amongHeads == ConnectHeads(1, remainingClusterHeads, toHeads)
            IN Append(amongHeads,
                      MkConn(ClosestHead(baseStation, remainingClusterHeads).id,
                             baseStation.id))
       ELSE <<>>

\* Array.prototype.sort by decreasing length, equal lengths in list order
SortByLength(components) ==
    LET before(i, j) == \/ Len(components[i]) > Len(components[j])
                        \/ Len(components[i]) = Len(components[j]) /\ i < j
        rank(j) == 1 + Cardinality({i \in DOMAIN components : before(i, j)})
    IN [k \in DOMAIN components |->
           components[CHOOSE j \in DOMAIN components : rank(j) = k]]

\* lines 1097-1105: the first pair of a node of isolatedComponent and a
\* node of mainComponent at the least distance, source by source
BestConnection(isolatedComponent, mainComponent) ==
    LET pairs == {<<i, j>> : i \in DOMAIN isolatedComponent,
                             j \in DOMAIN mainComponent}
        d(p) == Dist2(isolatedComponent[p[1]], mainComponent[p[2]])
        earlier(p, q) == p[1] < q[1] \/ (p[1] = q[1] /\ p[2] < q[2])
        best == CHOOSE p \in pairs :
                    /\ \A q \in pairs : d(p) <= d(q)
                    /\ \A q \in pairs : earlier(q, p) => d(q) > d(p)
    IN MkConn(isolatedComponent[best[1]].id, mainComponent[best[2]].id)

\* lines 1094-1110: every isolated component is joined to the main one,
\* which grows by it
RECURSIVE JoinComponents(_, _, _)
JoinComponents(components, mainComponent, conns) ==
    IF components = <<>> THEN conns
    ELSE JoinComponents(Tail(components),
                        mainComponent \o Head(components),
                        Append(conns, BestConnection(Head(components),
                                                     mainComponent)))

\* a slip that would keep the connections among the remaining nodes and
\* leave the isolated components as they are
ReconnectGeneric_FilterOnly(newNodes, cs, weakNodeIds) ==
    SelectSeq(cs, LAMBDA c : /\ ~Includes(weakNodeIds, c.from)
                             /\ ~Includes(weakNodeIds, c.to))

\* lines 1086-1113: the connections of the generic branch
ReconnectGeneric(newNodes, cs, weakNodeIds) ==
    LET newConnections ==
            SelectSeq(cs, LAMBDA c : /\ ~Includes(weakNodeIds, c.from)
                                     /\ ~Includes(weakNodeIds, c.to))
    IN IF Len(newNodes) >= 2
       THEN LET components ==
                    SortByLength(findNetworkComponents(newNodes, newConnections))
            IN IF Len(components) > 1
               THEN JoinComponents(Tail(components), Head(components),
                                   newConnections)
               ELSE newConnections
       ELSE newConnections

\* a slip that would keep every node
RemainingNodes_All(ns, weakNodeIds) == ns

\* handleReconstruct line 1024
RemainingNodes(ns, weakNodeIds) ==
    SelectSeq(ns, LAMBDA n : ~Includes(weakNodeIds, n.id))

\* handleReconstruct lines 1017-1118: the graph and the cluster-head ids
\* that it leaves; identifyTopology is called without cluster-head ids
handleReconstruct(ns, cs, heads) ==
    LET weakNodeIds == WeakNodeIds(ns)
        newNodes == RemainingNodes(ns, weakNodeIds)
        topology == identifyTopology(newNodes, cs, <<>>)
        isClusterTopology == "cluster" \in TopologyWords(topology)
    IN IF Len(weakNodeIds) = 0
       THEN [nodes |-> ns, connections |-> cs, clusterHeadIds |-> heads]
       ELSE [nodes |-> newNodes,
             connections |->
                 IF isClusterTopology
                 THEN ReconnectCluster(newNodes, heads, weakNodeIds)
                 ELSE ReconnectGeneric(newNodes, cs, weakNodeIds),
             clusterHeadIds |->
                 SelectSeq(heads, LAMBDA id : ~Includes(weakNodeIds, id))]

\* ------------------------------------------------------ packet animation
\* VisualBuilderWorkspace lines 15-17, in ms
PACKET_ANIMATION_DURATION_AI == 4000
PACKET_ANIMATION_DURATION_TRADITIONAL == 5500
PACKET_SIMULATION_DURATION == 8000

\* the ids of the nodes marked as malicious, lines 250, 830 and 423
MaliciousIds(ns) ==
    LET marked == SelectSeq(ns, LAMBDA n : n.isMalicious)
    IN [i \in DOMAIN marked |-> marked[i].id]

\* a packet in flight.  Its id `${prefix}${source}-${Date.now()}` is held
\* as a record, and performance.now() - startTime as of the last frame as
\* elapsed; progress is the exact ratio that the last frame stored
MkPacket(prefix, source, stamp, path, duration) ==
    [id |-> [prefix |-> prefix, source |-> source, stamp |-> stamp],
     path |-> path, progress |-> QInt(0), elapsed |-> 0, duration |-> duration]

\* line 260: p.id.startsWith('packet-trad') || startsWith('sim-packet-trad-')
IsTraditional(p) == p.id.prefix \in {"packet-trad", "sim-packet-trad-"}

\* line 261, for a progress in [0, 1] on a path of L ids
SegmentIndex(progress, L) ==
    Min2((progress[1] * (L - 1)) \div progress[2], L - 2)

\* lines 260-273: the packet is dropped when the node at the end of its
\* current segment is malicious
Dropped(p, progress, maliciousNodes) ==
    /\ IsTraditional(p)
    /\ Includes(maliciousNodes,
                p.path[SegmentIndex(progress, Len(p.path)) + 2])

\* lines 256-280: the packet p at a frame that comes elapsed ms after its
\* start
animatePacket(p, elapsed, maliciousNodes) ==
    LET progress == QMin(Q(elapsed, p.duration), QInt(1))
    IN [p EXCEPT !.elapsed = elapsed,
                 !.progress = IF Dropped(p, progress, maliciousNodes)
                              THEN QInt(1) ELSE progress]

\* lines 249-310: the packets that a frame leaves, dt ms after the frame
\* (or the request) before it, and the drop marks that it sets; loopNodes
\* are the nodes of the render that made the callback
animationLoop(prevPackets, dt, loopNodes) ==
    LET maliciousNodes == MaliciousIds(loopNodes)
        moved == [i \in DOMAIN prevPackets |->
                     animatePacket(prevPackets[i], prevPackets[i].elapsed + dt,
                                   maliciousNodes)]
        marks == {prevPackets[i].id :
                    i \in {j \in DOMAIN prevPackets :
                        LET p == prevPackets[j]
                            progress == QMin(Q(p.elapsed + dt, p.duration), QInt(1))
                            at == SegmentIndex(progress, Len(p.path))
                        IN /\ Dropped(p, progress, maliciousNodes)
                           /\ p.path[at + 1] \in NodeIdsOf(loopNodes)
                           /\ p.path[at + 2] \in NodeIdsOf(loopNodes)}}
    IN [updatedPackets |-> SelectSeq(moved, LAMBDA p : QLess(p.progress, QInt(1))),
        dropMarks |-> marks]

\* a slip that would keep the frame requested whatever is left
FrameAfter_Always(updatedPackets, frame) == frame

\* lines 303-307: the frame is requested again while packets are left
FrameAfter(updatedPackets, frame) ==
    IF Len(updatedPackets) > 0 THEN frame ELSE NoFrame

\* requestAnimationFrame(animationLoop) of the render with the nodes ns
Frame(ns) == [nodes |-> ns]

\* ensureAnimationLoop lines 312-316
ensureAnimationLoop(frame, ns) == IF frame = NoFrame THEN Frame(ns) ELSE frame

\* startAnalysisPacketAnimation lines 318-323: the packets of the two
\* paths, each Null or a path
AnalysisPackets(path, pathTrad) ==
    (IF path # Null
     THEN <<MkPacket("packet-ai", NoId, 0, path, PACKET_ANIMATION_DURATION_AI)>>
     ELSE <<>>)
    \o (IF pathTrad # Null
        THEN <<MkPacket("packet-trad", NoId, 0, pathTrad,
                        PACKET_ANIMATION_DURATION_TRADITIONAL)>>
        ELSE <<>>)

\* handleNodeClickForSimulation lines 423-441: the packets from sourceNodeId
\* to the base station, stamped t
SimulationPackets(sourceNodeId, destinationNodeId, ns, cs, t) ==
    LET pathAI == findShortestPath(sourceNodeId, destinationNodeId, ns, cs,
                                   MaliciousIds(ns))
        pathTrad == findShortestPath(sourceNodeId, destinationNodeId, ns, cs,
                                     <<>>)
    IN (IF pathAI # Null
        THEN <<MkPacket("sim-packet-ai-", sourceNodeId, t, pathAI,
                        PACKET_SIMULATION_DURATION)>>
        ELSE <<>>)
       \o (IF pathTrad # Null
           THEN <<MkPacket("sim-packet-trad-", sourceNodeId, t, pathTrad,
                           PACKET_SIMULATION_DURATION)>>
           ELSE <<>>)


\* the cap on the ids stamped in one run: every dropped component and every
\* packet takes the next stamp
MaxStamps == 2

\* addNode lines 453-482 for the drops of the given set, each a tuple
\* <<type, x, y, energyEfficiency>>
AddNode(drops) ==
    /\ clock < MaxStamps
    /\ \E d \in drops :
         nodes' = Append(nodes, addNode(d[1], d[2], d[3], d[4], clock + 1))
    /\ history' = saveSnapshot(history, nodes, connections)
    /\ clock' = clock + 1
    /\ UNCHANGED <<connections, clusterHeadIds, calls, analysis, alert, files,
                   modes, selection, isConnecting, animation, work>>

\* the most packet stamps taken from the clock
MaxSends == 1

\* handleNodeClickForSimulation lines 386-450 for the node nodeId
NodeClickForSimulation(nodeId) ==
    LET targets == SelectSeq(nodes, LAMBDA n : n.id = nodeId)
        baseStations == SelectSeq(nodes, LAMBDA n : n.type = BASE_STATION)
        newPackets == SimulationPackets(nodeId, baseStations[1].id, nodes,
                                        connections, clock + 1)
    IN IF targets = <<>> \/ targets[1].type = BASE_STATION
       THEN UNCHANGED <<alert, packetSimSourceNodes, animatedPackets,
                        animationFrameRef, clock>>
       ELSE IF baseStations = <<>>
       THEN /\ alert' = "A Base Station is required to act as the destination for packet simulations."
            /\ UNCHANGED <<packetSimSourceNodes, animatedPackets,
                           animationFrameRef, clock>>
       ELSE IF Includes(packetSimSourceNodes, nodeId)
       THEN /\ packetSimSourceNodes' =
                   SelectSeq(packetSimSourceNodes, LAMBDA id : id # nodeId)
            /\ UNCHANGED <<alert, animatedPackets, animationFrameRef, clock>>
       ELSE IF Len(packetSimSourceNodes) >= 15
       THEN /\ alert' = "You can select a maximum of 15 source nodes for simulation."
            /\ UNCHANGED <<packetSimSourceNodes, animatedPackets,
                           animationFrameRef, clock>>
       ELSE /\ clock < MaxSends
            /\ packetSimSourceNodes' = Append(packetSimSourceNodes, nodeId)
            /\ clock' = clock + 1
            /\ IF Len(newPackets) > 0
               THEN /\ animatedPackets' = animatedPackets \o newPackets
                    /\ animationFrameRef' =
                           ensureAnimationLoop(animationFrameRef, nodes)
                    /\ UNCHANGED alert
               ELSE /\ alert' = "No path found from the selected node to the Base Station."
                    /\ UNCHANGED <<animatedPackets, animationFrameRef>>

\* NetworkCanvas.handleMouseDown on the node id, part_006 lines 73-126:
\* a click for the packet simulation, the start or the end of a manual
\* connection, or the selection of the node (dragging moves nodes only)
HandleMouseDown ==
    /\ \E id \in NodeIdsOf(nodes) :
         IF isPacketSimulationMode
         THEN /\ NodeClickForSimulation(id)
              /\ UNCHANGED <<connections, history, selection, isConnecting>>
         ELSE IF isConnectionMode
         THEN /\ IF isConnecting # NoId
                 THEN /\ IF /\ isConnecting # id
                            /\ ~ConnExists(connections, isConnecting, id)
                         THEN /\ history' = saveSnapshot(history, nodes,
                                                         connections)
                              /\ connections' =
                                     Append(connections, MkConn(isConnecting, id))
                         ELSE UNCHANGED <<connections, history>>
                      /\ isConnecting' = NoId
                      /\ UNCHANGED selection
                 ELSE /\ isConnecting' = id
                      /\ selectedNodeId' = NoId
                      /\ selectedConnectionId' = Null
                      /\ UNCHANGED <<connections, history>>
              /\ UNCHANGED <<alert, packetSimSourceNodes, animatedPackets,
                             animationFrameRef, clock>>
         ELSE /\ selectedConnectionId' = Null
              /\ selectedNodeId' = id
              /\ UNCHANGED <<connections, history, isConnecting, alert,
                             packetSimSourceNodes, animatedPackets,
                             animationFrameRef, clock>>
    /\ UNCHANGED <<nodes, clusterHeadIds, calls, analysis, files,
                   isConnectionMode, isPacketSimulationMode,
                   droppedPacketEvents, work>>

\* NetworkCanvas.handleConnectionClick, part_006 lines 67-71
HandleConnectionClick ==
    /\ \E i \in DOMAIN connections :
         selectedConnectionId' = ConnId(connections[i])
    /\ selectedNodeId' = NoId
    /\ UNCHANGED <<nodes, connections, clusterHeadIds, calls, panel, modes,
                   isConnecting, animation, work, clock>>

\* NetworkCanvas.handleMouseLeave, part_006 lines 161-167
HandleMouseLeave ==
    /\ isConnecting # NoId
    /\ isConnecting' = NoId
    /\ UNCHANGED <<nodes, connections, clusterHeadIds, calls, panel, modes,
                   selection, animation, work, clock>>

\* NetworkCanvas.handleCanvasClick, part_006 lines 169-176: a click on the
\* canvas, which is also where the click that ends a press of the primary
\* button on a node arrives (handleMouseDown stops the mousedown event only);
\* a press of another button is followed by no click
HandleCanvasClick ==
    /\ IF ~isConnectionMode /\ ~isPacketSimulationMode
       THEN /\ selectedNodeId' = NoId
            /\ selectedConnectionId' = Null
       ELSE UNCHANGED selection
    /\ isConnecting' = NoId
    /\ UNCHANGED <<nodes, connections, clusterHeadIds, calls, panel, modes,
                   animation, work, clock>>

\* the keydown handler of lines 220-229 for Delete and Backspace, with
\* deleteSelectedConnection (203-209) and deleteSelectedNode (211-218)
HandleKeyDown ==
    /\ IF selectedConnectionId # Null
       THEN /\ history' = saveSnapshot(history, nodes, connections)
            /\ connections' = WithoutConnection(connections,
                                                selectedConnectionId)
            /\ selectedConnectionId' = Null
            /\ UNCHANGED <<nodes, selectedNodeId>>
       ELSE /\ selectedNodeId # NoId
            /\ history' = saveSnapshot(history, nodes, connections)
            /\ nodes' = WithoutNode(nodes, selectedNodeId)
            /\ connections' = ConnectionsWithoutNode(connections,
                                                     selectedNodeId)
            /\ selectedNodeId' = NoId
            /\ UNCHANGED selectedConnectionId
    /\ UNCHANGED <<clusterHeadIds, calls, simulationResults, analysis, alert,
                   files, modes, isConnecting, animation, work, clock>>

\* ------------------------------------------------------------- analysis
\* pathfindingService.findFarthestNodes, part_003 lines 4-23: the first
\* pair, in the order of the two loops, at the greatest distance
findFarthestNodes(ns, excludeNodeIds) ==
    LET validNodes == SelectSeq(ns, LAMBDA n : ~Includes(excludeNodeIds, n.id))
        Pairs == {p \in (DOMAIN validNodes) \X (DOMAIN validNodes) : p[1] < p[2]}
        Before(p, q) == p[1] < q[1] \/ (p[1] = q[1] /\ p[2] < q[2])
        D(p) == Dist2(validNodes[p[1]], validNodes[p[2]])
        best == CHOOSE p \in Pairs :
                    \A q \in Pairs : /\ D(q) <= D(p)
                                     /\ (D(q) = D(p) => (q = p \/ Before(p, q)))
    IN IF Len(validNodes) < 2 THEN Null
       ELSE <<validNodes[best[1]].id, validNodes[best[2]].id>>

\* the outcomes of a call of the language model as the workspace sees it:
\* a text, the placeholder text that geminiService returns from its own
\* catch (lines 184-187 and 226-229), or a rejected promise
LlmOutcomes == {"text", "placeholder", "rejected"}

DescriptionOf(outcome) ==
    IF outcome = "text" THEN "description"
    ELSE "Could not retrieve description. The API may be unavailable or the key may be invalid."

InsightsOf(outcome) ==
    IF outcome = "text" THEN "insights"
    ELSE "**Error:** Could not generate network insights. The API may be unavailable."

\* handleAnalyze lines 839-841: the insights with the security alert
WithSecurityAlert(insights, maliciousNodeIds) ==
    IF Len(maliciousNodeIds) > 0
    THEN insights \o " **Security Alert:** " \o ToString(Len(maliciousNodeIds))
              \o " malicious node(s) detected."
    ELSE insights

\* the texts of the catch blocks, lines 864-865 and 1147-1148
AnalyzeFailed ==
    [analysisResult |-> [topology |-> "Error",
                         description |-> "Failed to analyze network. Please check console."],
     insights |-> "**Error:** Could not generate network insights."]

ReanalyzeFailed ==
    [analysisResult |-> [topology |-> "Error",
                         description |-> "Failed to re-analyze network."],
     insights |-> "**Error:** Could not regenerate insights after reconstruction."]

\* the most handlers that wait for the language model at a time
MaxFlows == 1

\* a slip that would compute the metrics after the description arrived
AnalyzeParams_AfterDescription(results, topology, ns, cs, maliciousNodeIds) ==
    Null

\* handleAnalyze lines 845-846: the metrics, computed before any await
AnalyzeParams(results, topology, ns, cs, maliciousNodeIds) ==
    simulatePerformance(results, topology, ns, cs, maliciousNodeIds)

\* handleAnalyze lines 816-847, up to the first await.  The Toolbar button
\* is disabled while isAnalyzing or with fewer than two nodes (Toolbar.tsx
\* line 283).  The node mobility that it starts is outside this module.
HandleAnalyze ==
    /\ ~isAnalyzing
    /\ Len(nodes) >= 2
    /\ Len(flows) < MaxFlows
    /\ LET maliciousNodeIds == MaliciousIds(nodes)
           topology == identifyTopology(nodes, connections, <<>>)
           params == AnalyzeParams(simulationResults, topology, nodes,
                                   connections, maliciousNodeIds)
       IN /\ analysis' = [analysisResult |-> Null,
                          simulationParams |-> params,
                          insights |-> Null,
                          hasAnalyzedOnce |-> TRUE,
                          isolatedMaliciousNodeIds |-> maliciousNodeIds]
          /\ simulationResults' = ResultsAfter(simulationResults, params)
          /\ flows' = Append(flows,
                 [op |-> "handleAnalyze", stage |-> "description",
                  topology |-> topology, nodes |-> nodes,
                  connections |-> connections,
                  maliciousNodeIds |-> maliciousNodeIds])
    /\ isAnalyzing' = TRUE
    /\ animatedPackets' = <<>>
    /\ isConnectionMode' = FALSE
    /\ isPacketSimulationMode' = FALSE
    /\ packetSimSourceNodes' = <<>>
    /\ UNCHANGED <<nodes, connections, clusterHeadIds, request, pc, call, ret,
                   adjacency, history, alert, files, selection, isConnecting,
                   animationFrameRef, droppedPacketEvents, clock>>

RemoveAt(s, i) == SubSeq(s, 1, i - 1) \o SubSeq(s, i + 1, Len(s))

\* the end of a flow: the catch block when the awaited call rejected, then
\* the finally block (handleAnalyze lines 862-870, handleReconstruct lines
\* 1145-1152)
FlowFails(i) ==
    /\ analysis' = IF flows[i].op = "handleAnalyze"
                   THEN [analysis EXCEPT
                            !.analysisResult = AnalyzeFailed.analysisResult,
                            !.insights = AnalyzeFailed.insights]
                   ELSE [analysis EXCEPT
                            !.analysisResult = ReanalyzeFailed.analysisResult,
                            !.insights = ReanalyzeFailed.insights]
    /\ isAnalyzing' = IF flows[i].op = "handleAnalyze" THEN FALSE
                      ELSE isAnalyzing
    /\ flows' = RemoveAt(flows, i)

\* `await descriptionPromise` returns with one of the outcomes: handleAnalyze
\* lines 849-850 and handleReconstruct lines 1139-1140
AwaitDescription(outcomes) ==
    /\ \E i \in DOMAIN flows, outcome \in outcomes :
         /\ flows[i].stage = "description"
         /\ IF outcome = "rejected"
            THEN FlowFails(i)
            ELSE /\ analysis' = [analysis EXCEPT !.analysisResult =
                                    [topology |-> flows[i].topology,
                                     description |-> DescriptionOf(outcome)]]
                 /\ flows' = [flows EXCEPT ![i].stage = "insights"]
                 /\ UNCHANGED isAnalyzing
    /\ UNCHANGED <<nodes, connections, clusterHeadIds, calls, history, alert,
                   files, modes, selection, isConnecting, animation, clock>>

\* `await insightsPromise` returns with one of the outcomes: handleAnalyze lines 852-860 with the
\* test packets between the farthest nodes, handleReconstruct lines
\* 1142-1143; then the finally block
AwaitInsights(outcomes) ==
    /\ \E i \in DOMAIN flows, outcome \in outcomes :
         LET f == flows[i]
             farthestNodes == findFarthestNodes(f.nodes, f.maliciousNodeIds)
             newPackets ==
                 IF farthestNodes = Null THEN <<>>
                 ELSE AnalysisPackets(
                          findShortestPath(farthestNodes[1], farthestNodes[2],
                                           f.nodes, f.connections,
                                           f.maliciousNodeIds),
                          findShortestPath(farthestNodes[1], farthestNodes[2],
                                           f.nodes, f.connections, <<>>))
         IN /\ f.stage = "insights"
            /\ IF outcome = "rejected"
               THEN /\ FlowFails(i)
                    /\ UNCHANGED <<animatedPackets, animationFrameRef>>
               ELSE /\ analysis' = [analysis EXCEPT !.insights =
                           IF f.op = "handleAnalyze"
                           THEN WithSecurityAlert(InsightsOf(outcome),
                                                  f.maliciousNodeIds)
                           ELSE InsightsOf(outcome)]
                    /\ flows' = RemoveAt(flows, i)
                    /\ IF f.op = "handleAnalyze"
                       THEN /\ isAnalyzing' = FALSE
                            /\ IF farthestNodes # Null
                               THEN /\ animatedPackets' =
                                           animatedPackets \o newPackets
                                    /\ animationFrameRef' =
                                           ensureAnimationLoop(animationFrameRef,
                                                               f.nodes)
                               ELSE UNCHANGED <<animatedPackets,
                                                animationFrameRef>>
                       ELSE UNCHANGED <<isAnalyzing, animatedPackets,
                                        animationFrameRef>>
    /\ UNCHANGED <<nodes, connections, clusterHeadIds, calls, history, alert,
                   files, modes, selection, isConnecting, droppedPacketEvents,
                   clock>>

\* the effect of lines 181-201 after the graph or hasAnalyzedOnce changed:
\* with fewer than two nodes the report is taken down, and after an analysis
\* the metrics are computed again for the graph as it is now
ReportEffect ==
    /\ IF ~analysis.hasAnalyzedOnce \/ Len(nodes) < 2
       THEN /\ Len(nodes) < 2
            /\ analysis' = [analysis EXCEPT !.simulationParams = Null]
            /\ UNCHANGED simulationResults
       ELSE LET maliciousNodes == MaliciousIds(nodes)
                topology == identifyTopology(nodes, connections, <<>>)
                params == simulatePerformance(simulationResults, topology,
                                              nodes, connections, maliciousNodes)
            IN /\ analysis' = [analysis EXCEPT !.simulationParams = params]
               /\ simulationResults' = ResultsAfter(simulationResults, params)
    /\ UNCHANGED <<nodes, connections, clusterHeadIds, request, pc, call, ret,
                   adjacency, history, alert, files, ui>>

\* toggleConnectionMode lines 357-369
ToggleConnectionMode ==
    /\ isConnectionMode' = ~isConnectionMode
    /\ IF ~isConnectionMode
       THEN /\ isPacketSimulationMode' = FALSE
            /\ packetSimSourceNodes' = <<>>
       ELSE UNCHANGED <<isPacketSimulationMode, packetSimSourceNodes>>
    /\ selectedNodeId' = NoId
    /\ selectedConnectionId' = Null
    /\ UNCHANGED <<nodes, connections, clusterHeadIds, calls, panel,
                   isConnecting, animation, work, clock>>

\* a slip that would leave the connection mode as it is
EnterPacketSimulation_Keep(connectionMode) == connectionMode

\* togglePacketSimulationMode line 375: the connection mode after the packet
\* simulation mode was entered
EnterPacketSimulation(connectionMode) == FALSE

\* togglePacketSimulationMode lines 371-384
TogglePacketSimulationMode ==
    /\ isPacketSimulationMode' = ~isPacketSimulationMode
    /\ IF ~isPacketSimulationMode
       THEN /\ isConnectionMode' = EnterPacketSimulation(isConnectionMode)
            /\ selectedNodeId' = NoId
            /\ selectedConnectionId' = Null
       ELSE UNCHANGED <<isConnectionMode, selection>>
    /\ packetSimSourceNodes' = <<>>
    /\ UNCHANGED <<nodes, connections, clusterHeadIds, calls, panel,
                   isConnecting, animation, work, clock>>

\* updateNode lines 737-739 from the malicious switch of the properties
\* panel (PropertiesPanel.tsx line 129), which is shown for the selected
\* node outside the two modes (lines 1289-1297)
UpdateNodeMalicious ==
    /\ selectedNodeId # NoId
    /\ ~isConnectionMode
    /\ ~isPacketSimulationMode
    /\ \E i \in DOMAIN nodes :
         /\ nodes[i].id = selectedNodeId
         /\ nodes' = [nodes EXCEPT ![i].isMalicious = ~nodes[i].isMalicious]
    /\ UNCHANGED <<connections, clusterHeadIds, calls, panel, ui>>

\* handleAutoConnect lines 745-781 for a k of ks; the Toolbar button is
\* disabled with fewer than two nodes (Toolbar.tsx lines 237-241)
HandleAutoConnect(ks) ==
    /\ Len(nodes) >= 2
    /\ \E k \in ks :
         IF k <= 0
         THEN UNCHANGED <<connections, history>>
         ELSE /\ history' = saveSnapshot(history, nodes, connections)
              /\ connections' = handleAutoConnect(k, nodes)
    /\ UNCHANGED <<nodes, clusterHeadIds, calls, analysis, alert, files, ui>>

\* the alert of line 812
AlreadyConnectedAlert == "Router is already connected to all available nodes."

\* handleRouterAutoConnect lines 783-814 from the button of the properties
\* panel, which is shown for a selected router outside the two modes
\* (PropertiesPanel.tsx lines 133-136, part_011 lines 1289-1297)
HandleRouterAutoConnect ==
    /\ selectedNodeId # NoId
    /\ ~isConnectionMode
    /\ ~isPacketSimulationMode
    /\ \E i \in DOMAIN nodes : /\ nodes[i].id = selectedNodeId
                               /\ nodes[i].type = ROUTER
    /\ LET newConnections == RouterConnections(selectedNodeId, nodes,
                                               connections)
       IN /\ history' = saveSnapshot(history, nodes, connections)
          /\ connections' = connections \o newConnections
          /\ alert' = IF Len(newConnections) > 0
                      THEN "Connected router to nearest node(s)."
                      ELSE AlreadyConnectedAlert
    /\ UNCHANGED <<nodes, clusterHeadIds, calls, analysis, files, ui>>

\* the alert of line 1123
RemovedAlert ==
    "Removed weaker node(s). The network has been reconnected and the report will now be updated."

\* handleReconstruct lines 1016-1156, up to its first await, from the
\* button of the report, which is shown with the metrics while weak nodes
\* exist (lines 1351-1363, ReportDashboard.tsx lines 300-310)
HandleReconstruct ==
    /\ analysis.simulationParams # Null
    /\ Len(WeakNodeIds(nodes)) > 0
    /\ Len(flows) < MaxFlows
    /\ LET new == handleReconstruct(nodes, connections, clusterHeadIds)
           newTopology == identifyTopology(new.nodes, new.connections, <<>>)
           params == simulatePerformance(simulationResults, newTopology,
                                         new.nodes, new.connections, <<>>)
       IN /\ history' = saveSnapshot(history, nodes, connections)
          /\ nodes' = new.nodes
          /\ connections' = new.connections
          /\ clusterHeadIds' = new.clusterHeadIds
          /\ selectedNodeId' = NoId
          /\ alert' = RemovedAlert
          /\ IF Len(new.nodes) >= 2
             THEN /\ analysis' = [analysis EXCEPT
                         !.insights = Null,
                         !.analysisResult = [topology |-> newTopology,
                                             description |-> "Loading..."],
                         !.simulationParams = params]
                  /\ simulationResults' = ResultsAfter(simulationResults,
                                                       params)
                  /\ flows' = Append(flows,
                         [op |-> "handleReconstruct", stage |-> "description",
                          topology |-> newTopology, nodes |-> new.nodes,
                          connections |-> new.connections,
                          maliciousNodeIds |-> <<>>])
                  /\ animatedPackets' = <<>>
                  /\ UNCHANGED <<selectedConnectionId, animationFrameRef>>
             ELSE /\ analysis' = clearAnalysis(analysis)
                  /\ ClearAnalysisUi
                  /\ UNCHANGED <<simulationResults, flows>>
    /\ UNCHANGED <<request, pc, call, ret, adjacency, files, modes,
                   isConnecting, droppedPacketEvents, isAnalyzing, clock>>

\* one animation frame: animationLoop lines 249-310 with its state update,
\* dt ms after the frame (or the request) before it
AnimationFrame(spacings) ==
    /\ animationFrameRef # NoFrame
    /\ \E dt \in spacings :
         LET out == animationLoop(animatedPackets, dt, animationFrameRef.nodes)
         IN /\ animatedPackets' = out.updatedPackets
            /\ animationFrameRef' = FrameAfter(out.updatedPackets,
                                               animationFrameRef)
            /\ droppedPacketEvents' = droppedPacketEvents \cup out.dropMarks
    /\ UNCHANGED <<nodes, connections, clusterHeadIds, calls, panel, modes,
                   selection, isConnecting, work, clock>>

\* the timeout of line 270 takes a drop mark away after a second
DropEventExpires ==
    /\ \E e \in droppedPacketEvents :
         droppedPacketEvents' = droppedPacketEvents \ {e}
    /\ UNCHANGED <<nodes, connections, clusterHeadIds, calls, panel, modes,
                   selection, isConnecting, animatedPackets,
                   animationFrameRef, work, clock>>

\* ---------------------------------------------------------------- SpecHist
\* The undo history under many snapshots: a generated ring of three whose
\* nodes are selected, deleted and connected again to their nearest
\* neighbour, with undos in between.
InitHist ==
    /\ LET g == generateNetwork(3, "ring", FALSE, FALSE, 0, 1)
       IN /\ nodes = g.nodes
          /\ connections = g.connections
          /\ clusterHeadIds = g.clusterHeadIds
    /\ request = NoRequest
    /\ pc = "ready"
    /\ call = NoCall
    /\ ret = Null
    /\ adjacency = NoAdjacency
    /\ simulationResults = SIMULATION_RESULTS
    /\ history = <<[nodes |-> <<>>, connections |-> <<>>]>>
    /\ analysis = NoAnalysis
    /\ alert = NoAlert
    /\ networkDataToSave = NotJson
    /\ download = NoDownload
    /\ InitUi

NextHist ==
    \/ HandleAutoConnect({1})
    \/ HandleMouseDown
    \/ HandleCanvasClick
    \/ HandleKeyDown
    \/ HandleUndo

SpecHist == InitHist /\ [][NextHist]_vars

\* ----------------------------------------------------------------- SpecRun
\* A fresh workspace in which a bus of three end devices is generated,
\* nodes are selected and marked as malicious, the two modes are toggled,
\* the network is analysed with every outcome of the two calls of the
\* language model, packets are sent to the base station, and animation
\* frames come at short and at long spacings.
FrameSpacings == {2000, 4000}

\* the most nodes marked as malicious at a time
MaxMarked == 1

MarkRoom ==
    \/ Len(MaliciousIds(nodes)) < MaxMarked
    \/ Includes(MaliciousIds(nodes), selectedNodeId)

InitRun ==
    /\ nodes = <<>>
    /\ connections = <<>>
    /\ clusterHeadIds = <<>>
    /\ request = NoRequest
    /\ pc = "ready"
    /\ call = NoCall
    /\ ret = Null
    /\ adjacency = NoAdjacency
    /\ InitPanel
    /\ InitUi

NextRun ==
    \/ GenerateNetworkRequest({3}, {"bus"}, {1}, {1})
    \/ ToggleConnectionMode
    \/ TogglePacketSimulationMode
    \/ HandleAnalyze
    \/ AwaitDescription(LlmOutcomes)
    \/ AwaitInsights(LlmOutcomes)
    \/ ReportEffect
    \/ AnimationFrame(FrameSpacings)

SpecRun == InitRun /\ [][NextRun]_vars

\* animation frames keep firing while one is requested
FairRun == SpecRun /\ WF_vars(AnimationFrame(FrameSpacings))

\* ---------------------------------------------------------------- SpecAnim
\* A fresh workspace in which a bus of three end devices is generated, a
\* node is selected and marked as malicious, and packets are sent from end
\* devices to the base station in the packet simulation mode, with
\* animation frames at short and at long spacings.
NextAnim ==
    \/ GenerateNetworkRequest({3}, {"bus"}, {1}, {1})
    \/ TogglePacketSimulationMode
    \/ ~isConnectionMode /\ HandleMouseDown
    \/ HandleCanvasClick
    \/ MarkRoom /\ UpdateNodeMalicious
    \/ AnimationFrame(FrameSpacings)
    \/ DropEventExpires

SpecAnim == InitRun /\ [][NextAnim]_vars

\* --------------------------------------------------------------- SpecBuild
\* A fresh workspace that is edited.  Either components are dropped on the
\* canvas, or a network of two end devices is generated and analysed before
\* its first edit; nodes and connections are selected, connected by hand
\* and deleted, nodes are connected to their nearest neighbour, a router to
\* its nearest nodes, weak nodes are removed, and any of it is undone.  An
\* edit begins only while the history holds fewer than MaxEdits snapshots
\* and no call of the language model is pending; the first press of a
\* connection made by hand needs no room, since it takes no snapshot.  A
\* component is dragged from the toolbar, so that the pointer has left the
\* canvas and handleMouseLeave has cleared isConnecting before it is dropped;
\* the buttons outside the canvas can be worked from the keyboard.
EditDrops == {<<NODE, 100, 100, 80>>, <<ROUTER, 200, 200, 100>>}

\* the most snapshots in the history when an edit begins
MaxEdits == 2

EditRoom == Len(history) < MaxEdits /\ flows = <<>>

NextBuild ==
    \/ /\ EditRoom /\ isConnecting = NoId
       /\ request.result \in {"none", "reading"}
       /\ AddNode(EditDrops)
    \/ clock = 0 /\ GenerateNetworkRequest({2}, {"random"}, {1}, {0})
    \/ ToggleConnectionMode
    \/ (EditRoom \/ (isConnectionMode /\ isConnecting = NoId)) /\ HandleMouseDown
    \/ HandleMouseLeave
    \/ HandleCanvasClick
    \/ HandleConnectionClick
    \/ EditRoom /\ HandleKeyDown
    \/ EditRoom /\ HandleAutoConnect({1})
    \/ EditRoom /\ HandleRouterAutoConnect
    \/ Len(history) = 1 /\ request # NoRequest /\ HandleAnalyze
    \/ AwaitDescription({"text"})
    \/ AwaitInsights({"text"})
    \/ EditRoom /\ HandleReconstruct
    \/ HandleUndo

SpecBuild == InitRun /\ [][NextBuild]_vars

\* ---------------------------------------------------------------- SpecEdit
\* The edits of SpecBuild and the load of a file into a workspace on which
\* nothing was dropped yet; components may be dropped while the file is
\* being read.
NextEdit ==
    \/ NextBuild
    \/ clock = 0 /\ HandleLoadNetwork
    \/ ReaderOnLoad
    \/ ReaderOnError

SpecEdit == InitRun /\ [][NextEdit]_vars

\* ================================================================ claims
PathCallDone == pc = "done" /\ call.op = "findShortestPath"

\* the ids a search may not pass: excluded ids and disabled switches
RemovedIds(ns, ex) ==
    Range(ex) \cup {ns[i].id : i \in {j \in DOMAIN ns :
                                        ns[j].type = SWITCH /\ ~ns[j].isEnabled}}

\* the nodes that remain in the graph searched
KeptIds(ns, ex) == NodeIdsOf(ns) \ RemovedIds(ns, ex)

\* u and v are joined by a connection
Joined(cs, u, v) ==
    \E i \in DOMAIN cs : \/ cs[i].from = u /\ cs[i].to = v
                         \/ cs[i].from = v /\ cs[i].to = u

\* number of hops of a shortest walk from the ids of front to target inside
\* the id set V, found layer by layer; -1 when there is none
RECURSIVE HopsFrom(_, _, _, _, _, _)
HopsFrom(front, seen, target, V, cs, k) ==
    IF target \in front THEN k
    ELSE IF front = {} THEN -1
    ELSE LET next == {v \in V \ seen : \E u \in front : Joined(cs, u, v)}
         IN HopsFrom(next, seen \cup next, target, V, cs, k + 1)

HopDistance(s, e, V, cs) == HopsFrom({s} \cap V, {s} \cap V, e, V, cs, 0)

\* C1: findShortestPath returns null whenever startId or endId is empty, is
\* not the id of a node of the list, or is in excludeIds (startId = endId and
\* connections that mention ids of no node included).
C1_NullOnBadEndpoint ==
    PathCallDone =>
        ((\/ call.startNodeId = EmptyId \/ call.endNodeId = EmptyId
          \/ call.startNodeId \notin NodeIdsOf(nodes)
          \/ call.endNodeId \notin NodeIdsOf(nodes)
          \/ Includes(call.excludeNodeIds, call.startNodeId)
          \/ Includes(call.excludeNodeIds, call.endNodeId))
         => ret = Null)

\* C2: no returned path holds, at any position, an excluded id or the id of
\* a disabled switch.
C2_PathAvoidsRemoved ==
    PathCallDone =>
        \A i \in DOMAIN ret :
            ret[i] \notin RemovedIds(nodes, call.excludeNodeIds)

\* C3: for endpoints that are nodes and are neither excluded nor disabled
\* switches, a path is returned exactly when endId is reachable from startId
\* in the graph without the excluded nodes and the disabled switches; it
\* runs from startId to endId along connections and has the fewest hops.
C3_ShortestPathCorrect ==
    (/\ PathCallDone
     /\ call.startNodeId \in KeptIds(nodes, call.excludeNodeIds)
     /\ call.endNodeId \in KeptIds(nodes, call.excludeNodeIds))
    => LET d == HopDistance(call.startNodeId, call.endNodeId,
                            KeptIds(nodes, call.excludeNodeIds), connections)
       IN /\ (ret # Null) <=> (d >= 0)
          /\ ret # Null =>
               /\ ret[1] = call.startNodeId
               /\ ret[Len(ret)] = call.endNodeId
               /\ \A i \in 1..(Len(ret) - 1) :
                     Joined(connections, ret[i], ret[i + 1])
               /\ Len(ret) - 1 = d

\* a three-node path is returned although a connection to the ghost id and
\* a removable node exist
C3_Witness ==
    /\ PathCallDone
    /\ call.startNodeId \in KeptIds(nodes, call.excludeNodeIds)
    /\ call.endNodeId \in KeptIds(nodes, call.excludeNodeIds)
    /\ Len(ret) = 3
    /\ Len(connections) = MaxConns

\* the connections whose two ends are ids of nodes
ValidConns(ns, cs) ==
    SelectSeq(cs, LAMBDA c : c.from \in NodeIdsOf(ns) /\ c.to \in NodeIdsOf(ns))

Dangling(ns, c) == c.from \notin NodeIdsOf(ns) \/ c.to \notin NodeIdsOf(ns)

\* C4: a connection with an end that is the id of no node is ignored by
\* every graph routine: the neighbour lists, the degrees, the average
\* degree, the isolated-node count, the components and the returned path
\* are those of the graph without such connections.
C4_DanglingIgnored ==
    pc = "done" =>
        LET clean == ValidConns(nodes, connections)
        IN CASE call.op = "getNetworkStats" ->
                  /\ adjacency.built =>
                        adjacency.map = StatsAdjacency(nodes, clean)
                  /\ ret.avgDegree = getNetworkStats(nodes, clean).avgDegree
                  /\ ret.isolatedNodes = getNetworkStats(nodes, clean).isolatedNodes
             [] call.op = "findNetworkComponents" ->
                  /\ adjacency.built =>
                        adjacency.map = ComponentsAdjacency(nodes, clean)
                  /\ ret = findNetworkComponents(nodes, clean)
             [] call.op = "identifyTopology" ->
                  /\ adjacency.built =>
                        adjacency.map = TopoAdjacency(nodes, clean)
                  /\ ret = identifyTopology(nodes, clean, call.clusterHeadIds)
             [] call.op = "findShortestPath" ->
                  /\ adjacency.built =>
                        adjacency.map = PathAdjacency(nodes, clean,
                                                      call.excludeNodeIds)
                  /\ ret = findShortestPath(call.startNodeId, call.endNodeId,
                                            nodes, clean, call.excludeNodeIds)

\* C5 as stated: for every connection (u, v), v is in u's neighbour list
\* and u is in v's.
C5_EveryConnectionBothWays ==
    (pc = "done" /\ adjacency.built) =>
        \A i \in DOMAIN connections :
            LET c == connections[i]
            IN /\ c.from \in DOMAIN adjacency.map
               /\ c.to \in DOMAIN adjacency.map
               /\ Includes(adjacency.map[c.from], c.to)
               /\ Includes(adjacency.map[c.to], c.from)

\* the routine that built the adjacency leaves the connection c out
Skipped(c) ==
    /\ call.op = "findShortestPath"
    /\ \/ c.from \in RemovedIds(nodes, call.excludeNodeIds)
       \/ c.to \in RemovedIds(nodes, call.excludeNodeIds)

\* C5 amended: for every connection (u, v) between two nodes that the
\* routine does not skip (findShortestPath skips the connections of excluded
\* ids and of disabled switches), v is in u's neighbour list and u is in
\* v's; and for all node ids u and v of the adjacency, v is in u's list
\* exactly when u is in v's.
C5_AdjacencySymmetric ==
    (pc = "done" /\ adjacency.built) =>
        /\ \A i \in DOMAIN connections :
              LET c == connections[i]
              IN (~Dangling(nodes, c) /\ ~Skipped(c)) =>
                    /\ c.from \in DOMAIN adjacency.map
                    /\ c.to \in DOMAIN adjacency.map
                    /\ Includes(adjacency.map[c.from], c.to)
                    /\ Includes(adjacency.map[c.to], c.from)
        /\ \A u \in DOMAIN adjacency.map, v \in DOMAIN adjacency.map :
              Includes(adjacency.map[u], v) <=> Includes(adjacency.map[v], u)

\* findShortestPath built an adjacency from a graph with a recorded
\* connection, a skipped connection and a dangling connection
C5_Witness ==
    /\ pc = "done" /\ adjacency.built /\ call.op = "findShortestPath"
    /\ \E i \in DOMAIN connections :
          /\ ~Dangling(nodes, connections[i]) /\ ~Skipped(connections[i])
          /\ Includes(adjacency.map[connections[i].from], connections[i].to)
    /\ \E i \in DOMAIN connections :
          ~Dangling(nodes, connections[i]) /\ Skipped(connections[i])
    /\ \E i \in DOMAIN connections : Dangling(nodes, connections[i])

\* u and v are joined by a path of connections through nodes
Connected(ns, cs, u, v) == HopDistance(u, v, NodeIdsOf(ns), cs) >= 0

\* the places <<i, j>> of the component list comps
Places(comps) == {p \in (DOMAIN comps) \X (1..Len(nodes)) :
                     p[2] <= Len(comps[p[1]])}

\* C6: findNetworkComponents returns a partition of the nodes into connected
\* components: every node is in exactly one component, exactly once, and
\* two nodes are in the same component exactly when a path of connections
\* joins them.
C6_ComponentsPartition ==
    (pc = "done" /\ call.op = "findNetworkComponents") =>
        /\ \A i \in DOMAIN ret : ret[i] # <<>>
        /\ \A k \in DOMAIN nodes :
              Cardinality({p \in Places(ret) : ret[p[1]][p[2]] = nodes[k]}) = 1
        /\ \A p \in Places(ret) : \E k \in DOMAIN nodes : ret[p[1]][p[2]] = nodes[k]
        /\ \A p \in Places(ret), q \in Places(ret) :
              (p[1] = q[1]) <=> Connected(nodes, connections,
                                          ret[p[1]][p[2]].id, ret[q[1]][q[2]].id)

\* four nodes fall into two components of two nodes each
C6_Witness ==
    /\ pc = "done" /\ call.op = "findNetworkComponents"
    /\ Len(nodes) = 4
    /\ Len(ret) = 2 /\ Len(ret[1]) = 2 /\ Len(ret[2]) = 2

\* number of ends that connections between nodes have at the node id
Degree(ns, cs, id) ==
    LET valid == ValidConns(ns, cs)
    IN SeqSum([i \in DOMAIN valid |->
                 (IF valid[i].from = id THEN 1 ELSE 0)
                 + (IF valid[i].to = id THEN 1 ELSE 0)])

\* C10: for N >= 3 nodes and when the cluster rule gives no label,
\* identifyTopology returns the Star label exactly when some SWITCH or
\* BASE_STATION node has degree >= N - 2, whatever the order of the nodes.
C10_StarIffInfraHub ==
    (/\ pc = "done" /\ call.op = "identifyTopology"
     /\ Len(nodes) >= 3
     /\ ClusterRule(nodes, TopoAdjacency(nodes, connections),
                    call.clusterHeadIds) = "none")
    => ((ret = "Star Topology") <=>
            \E i \in DOMAIN nodes :
                /\ nodes[i].type \in {SWITCH, BASE_STATION}
                /\ Degree(nodes, connections, nodes[i].id) >= Len(nodes) - 2)

\* identifyTopology was called on the graph that an accepted generateNetwork
\* request for one of topologies produced
ClassifiedAs(topologies) ==
    /\ pc = "done" /\ call.op = "identifyTopology"
    /\ request.result = "generated"
    /\ request.args.topology \in topologies

\* C7: for an accepted count n >= 3, the graph generated for 'ring' is
\* labelled Ring and the graph generated for 'bus' is labelled Bus.
C7_RingBusRecognised ==
    (ClassifiedAs({"ring", "bus"}) /\ request.args.count >= 3) =>
        ret = (IF request.args.topology = "ring" THEN "Ring Topology"
               ELSE "Bus Topology")

\* C8: for an accepted count n >= 3, the graph generated for 'star' is
\* labelled Star.
C8_StarRecognised ==
    (ClassifiedAs({"star"}) /\ request.args.count >= 3) =>
        ret = "Star Topology"

\* a generated star of one hub and seven spokes has been classified
C8_Witness ==
    /\ ClassifiedAs({"star"})
    /\ request.args.count = 8
    /\ Len(nodes) = 8 /\ Len(connections) = 7
    /\ nodes[1].type = BASE_STATION
    /\ \A k \in DOMAIN connections : connections[k].to = nodes[1].id
    /\ ret = "Star Topology"

\* C9: the graph generated for 'cluster' or 'cluster-mesh' with
\* count > numClusterHeads, classified with the cluster-head ids that the
\* generator recorded, is labelled Cluster for 'cluster' and Cluster Mesh
\* for 'cluster-mesh'.
C9_ClusterRecognised ==
    (/\ ClassifiedAs({"cluster", "cluster-mesh"})
     /\ call.clusterHeadIds = clusterHeadIds)
    => ret = (IF request.args.topology = "cluster" THEN "Cluster Topology"
              ELSE "Cluster Mesh Topology")

\* generateNetwork accepted a request for one of topologies and the graph
\* it set is the current graph
GeneratedAs(topologies) ==
    /\ request.result = "generated"
    /\ request.args.topology \in topologies

\* the ring members of a generated ring: its end devices
RingNodeIds == {nodes[i].id : i \in {j \in DOMAIN nodes : nodes[j].type = NODE}}

RECURSIVE Orbit(_, _, _)
Orbit(id, k, conns) ==
    IF k = 0 THEN {id}
    ELSE {id} \cup UNION {Orbit(conns[i].to, k - 1, conns) :
                             i \in {j \in DOMAIN conns : conns[j].from = id}}

C14_NoLoopsNoDuplicates ==
    request.result = "generated" =>
        /\ \A i \in DOMAIN connections : connections[i].from # connections[i].to
        /\ \A i \in DOMAIN connections, j \in DOMAIN connections :
              (i # j) =>
                 {connections[i].from, connections[i].to}
                    # {connections[j].from, connections[j].to}

SimCallDone == call.op = SimOp

\* the returned value of metric key for the protocol
Metric(out, protocol, key) == out[protocol][key]

C16_AIPdrAboveTraditional ==
    (SimCallDone /\ Len(nodes) > 0) =>
        ~QLess(Metric(ret, AI_BASED, PDR),
               QAdd(Metric(ret, TRADITIONAL, PDR), Q(5, 100)))

\* a call in which the Traditional ratio computed before the clamp pass
\* (0.9 of the AI ratio, no malicious ids) was above the AI ratio less 0.05,
\* so that the clamp pass lowered it to exactly that
C16_Witness ==
    /\ SimCallDone
    /\ Len(nodes) > 0
    /\ call.args.maliciousNodeIds = <<>>
    /\ QLess(Q(40, 100), Metric(ret, AI_BASED, PDR))
    /\ QLess(Metric(ret, AI_BASED, PDR), Q(50, 100))
    /\ Metric(ret, TRADITIONAL, PDR) = QSub(Metric(ret, AI_BASED, PDR), Q(5, 100))

\* the result of the call made, had it been given only the first k of its
\* malicious ids
WithFewerMalicious(k) ==
    simulatePerformance(simulationResults, call.args.topology, nodes,
                        connections, SubSeq(call.args.maliciousNodeIds, 1, k))

\* C17: with topology, nodes and connections fixed, every increase in the
\* number of malicious ids strictly decreases the Traditional packet
\* delivery ratio.
C17_TraditionalPdrStrictlyDecreases ==
    SimCallDone =>
        \A k \in 0..(Len(call.args.maliciousNodeIds) - 1) :
            QLess(Metric(ret, TRADITIONAL, PDR),
                  Metric(WithFewerMalicious(k), TRADITIONAL, PDR))

\* C18: with topology, nodes and connections fixed, every increase in the
\* number of malicious ids strictly increases the Traditional end-to-end
\* delay.
C18_TraditionalDelayStrictlyIncreases ==
    SimCallDone =>
        \A k \in 0..(Len(call.args.maliciousNodeIds) - 1) :
            QLess(Metric(WithFewerMalicious(k), TRADITIONAL, DELAY),
                  Metric(ret, TRADITIONAL, DELAY))

\* the step is the answer to a generation request
GenerationAnswered == request = NoRequest /\ request'.result \in {"rejected", "generated"}

\* C12: a generation request with count > 450 is rejected and leaves nodes,
\* connections, the analysis state and the undo history as they were.
C12_OverLimitLeavesWorkspace ==
    [][(GenerationAnswered /\ request'.args.count > NodeLimit) =>
          /\ request'.result = "rejected"
          /\ nodes' = nodes
          /\ connections' = connections
          /\ analysis' = analysis
          /\ history' = history]_vars

\* a request for 451 nodes was rejected on an analysed graph with a
\* snapshot in the history
C12_Witness ==
    /\ request.result = "rejected"
    /\ request.args.count > NodeLimit
    /\ Len(nodes) > 0
    /\ Len(history) > 0
    /\ analysis.hasAnalyzedOnce

\* C13: a cluster or cluster-mesh request with count <= numClusterHeads is
\* rejected before any state mutation: nodes, connections, the undo history,
\* the analysis results and the recorded cluster-head ids are unchanged.
C13_ClusterRejectionLeavesWorkspace ==
    [][(/\ GenerationAnswered
        /\ request'.args.topology \in {"cluster", "cluster-mesh"}
        /\ request'.args.count <= request'.args.numClusterHeads) =>
          /\ request'.result = "rejected"
          /\ nodes' = nodes
          /\ connections' = connections
          /\ history' = history
          /\ analysis' = analysis
          /\ clusterHeadIds' = clusterHeadIds]_vars

\* the text is valid JSON for an object whose members nodes and connections
\* both are arrays
Loadable(text) ==
    /\ text.valid
    /\ text.json.kind = "object"
    /\ \A key \in {"nodes", "connections"} :
          /\ key \in DOMAIN text.json.value
          /\ text.json.value[key].kind = "array"

\* the step is the end of the reading of a chosen file
FileRead == request.result = "reading" /\ request'.result \in {"loaded", "load failed"}

\* C19: loading is all-or-nothing: a text that is not valid JSON, or whose
\* nodes or connections member is missing or not an array, leaves nodes,
\* connections and the undo history unchanged and shows an error message;
\* a text with both arrays replaces the graph entirely.
C19_LoadAllOrNothing ==
    [][FileRead =>
          IF Loadable(request.file.text)
          THEN /\ request'.result = "loaded"
               /\ nodes' = ValueOf(request.file.text.json.value["nodes"])
               /\ connections' =
                     ValueOf(request.file.text.json.value["connections"])
          ELSE /\ request'.result = "load failed"
               /\ nodes' = nodes
               /\ connections' = connections
               /\ history' = history
               /\ alert' = "Error loading file"]_vars

\* a file with a nodes array and no connections member was read on a graph
\* with a snapshot in the history, and turned away
C19_Witness ==
    /\ request.result = "load failed"
    /\ request.file.text.valid
    /\ Member(request.file.text.json, "nodes").kind = "array"
    /\ Member(request.file.text.json, "connections").kind = "undefined"
    /\ Len(nodes) > 0
    /\ Len(history) > 0

C30_HistoryBounded ==
    /\ [](Len(history) <= MAX_HISTORY_SIZE)
    /\ [][Len(history') >= Len(history) /\ history' # history =>
            LET saved == Append(history,
                                [nodes |-> nodes, connections |-> connections])
            IN history' = IF Len(history) = MAX_HISTORY_SIZE
                          THEN Tail(saved) ELSE saved]_vars

\* the history is full and its first snapshots were discarded: the oldest
\* one left is no longer the empty graph from before the generation
C30_Witness ==
    /\ Len(history) = MAX_HISTORY_SIZE
    /\ history[1].nodes # <<>>

\* C28: the connection mode and the packet simulation mode are never both
\* active, whatever the order of mode toggles, analyses and generations.
C28_ModesExclusive == ~(isConnectionMode /\ isPacketSimulationMode)

\* the packet simulation mode is on over a generated and analysed network
C28_Witness ==
    /\ isPacketSimulationMode
    /\ analysis.hasAnalyzedOnce
    /\ Len(nodes) > 0

\* the texts that an analysis may show for its description and insights
C23_Texts ==
    {DescriptionOf(o) : o \in LlmOutcomes} \cup {InsightsOf(o) : o \in LlmOutcomes}
    \cup {AnalyzeFailed.analysisResult.description, AnalyzeFailed.insights}

\* C23: the step that starts handleAnalyze on a graph sets simulationParams
\* to simulatePerformance of that graph before either call of the language
\* model has returned; no later step of the analysis, whatever the outcome
\* of the calls, changes it; and when the analysis ends, its description and
\* its insights are a text of the model or a placeholder text.
C23_MetricsNotBlocked ==
    [][/\ (~isAnalyzing /\ isAnalyzing') =>
              /\ analysis'.hasAnalyzedOnce
              /\ analysis'.simulationParams =
                     simulatePerformance(simulationResults,
                         identifyTopology(nodes, connections, <<>>),
                         nodes, connections, MaliciousIds(nodes))
       /\ (isAnalyzing /\ flows' # flows) =>
              analysis'.simulationParams = analysis.simulationParams
       /\ (isAnalyzing /\ ~isAnalyzing') =>
              /\ analysis'.analysisResult.description \in C23_Texts
              /\ analysis'.insights \in C23_Texts]_vars

\* an analysis ended in the catch block after a call was rejected, and the
\* metrics of the graph are shown
C23_Witness ==
    /\ analysis.hasAnalyzedOnce
    /\ ~isAnalyzing
    /\ flows = <<>>
    /\ analysis.analysisResult = AnalyzeFailed.analysisResult
    /\ analysis.simulationParams =
           simulatePerformance(simulationResults,
               identifyTopology(nodes, connections, <<>>),
               nodes, connections, MaliciousIds(nodes))

\* the packet with the id is in flight
InFlight(id) == \E i \in DOMAIN animatedPackets : animatedPackets[i].id = id

\* the ids of the test packets of an analysis
AnalysisPacketIds ==
    {[prefix |-> prefix, source |-> NoId, stamp |-> 0] :
        prefix \in {"packet-ai", "packet-trad"}}

\* C29: while animation frames keep firing, no packet is kept with a
\* progress of 1 or with its duration elapsed, every packet in flight is
\* removed at some later time, and when no packets are left the requested
\* frame is given up unless packets are added again.
C29_PacketsLeave ==
    /\ [](\A i \in DOMAIN animatedPackets :
              /\ QLess(animatedPackets[i].progress, QInt(1))
              /\ animatedPackets[i].elapsed < animatedPackets[i].duration)
    /\ \A id \in AnalysisPacketIds : InFlight(id) ~> ~InFlight(id)
    /\ (animatedPackets = <<>>) ~>
           (animationFrameRef = NoFrame \/ animatedPackets # <<>>)

\* a new analysis has cleared the packets of the one before while their
\* animation frame is still requested
C29_Witness ==
    /\ animatedPackets = <<>>
    /\ animationFrameRef # NoFrame
    /\ isAnalyzing

\* the position in the path of its first malicious node after the source,
\* as the running animation loop sees the nodes; 0 if there is none
FirstMalicious(path, maliciousNodes) ==
    LET at == {k \in 2..Len(path) : Includes(maliciousNodes, path[k])}
    IN IF at = {} THEN 0 ELSE CHOOSE k \in at : \A j \in at : k <= j

\* C25: a traditional packet in flight whose path holds a malicious node
\* after its source has not passed the segment that enters the first such
\* node: the node at the end of its current segment is that node or one
\* before it.
C25_MaliciousDropsTraditional ==
    \A i \in DOMAIN animatedPackets :
        LET p == animatedPackets[i]
            first == FirstMalicious(p.path,
                                    MaliciousIds(animationFrameRef.nodes))
        IN (IsTraditional(p) /\ first > 0) =>
               SegmentIndex(p.progress, Len(p.path)) + 2 <= first

\* a step of handleReconstruct: the only step that takes a snapshot and
\* starts a re-analysis or clears the analysis without a new request
ReconstructStep ==
    /\ history' # history
    /\ request' = request
    /\ (flows' # flows \/ analysis' # analysis)

IsWeak(n) ==
    n.type = NODE /\ n.energyEfficiency < WEAK_NODE_EFFICIENCY_THRESHOLD

C22_ReconstructConnects ==
    [][(ReconstructStep /\ Len(nodes') >= 2) =>
          Len(findNetworkComponents(nodes', connections')) = 1]_vars

\* a reconstruction has removed the node between two others and joined
\* them by a connection that was not there before
C22_Witness ==
    /\ alert = RemovedAlert
    /\ Len(history) > 0
    /\ Len(nodes) >= 2
    /\ LET last == history[Len(history)]
       IN /\ nodes = SelectSeq(last.nodes, LAMBDA n : ~IsWeak(n))
          /\ Len(nodes) < Len(last.nodes)
          /\ \E i \in DOMAIN connections :
                 ~Includes(last.connections, connections[i])
          /\ Len(findNetworkComponents(nodes, connections)) = 1

\* C24: right after a step that changes the graph and is no undo itself,
\* handleUndo gives back the nodes and connections from just before that
\* step and removes the snapshot that the step took; a step of the Undo
\* button does what handleUndo says; and handleUndo on an empty history
\* changes nothing.
C24_UndoReverts ==
    [][/\ (<<nodes', connections'>> # <<nodes, connections>>
           /\ Len(history') >= Len(history)) =>
              LET u == handleUndo(history', nodes', connections')
              IN /\ u.nodes = nodes
                 /\ u.connections = connections
                 /\ u.history = SubSeq(history', 1, Len(history') - 1)
       /\ Len(history') < Len(history) =>
              [nodes |-> nodes', connections |-> connections',
               history |-> history'] = handleUndo(history, nodes, connections)
       /\ handleUndo(<<>>, nodes, connections) =
              [nodes |-> nodes, connections |-> connections,
               history |-> <<>>]]_vars

\* C26: every connection joins two nodes of the graph.
C26_ConnectionsJoinNodes ==
    \A i \in DOMAIN connections :
        /\ connections[i].from \in NodeIdsOf(nodes)
        /\ connections[i].to \in NodeIdsOf(nodes)

\* C27: a router auto-connect that finds the router connected to every
\* other node, and so leaves nodes and connections as they are, leaves the
\* undo history as it is.
C27_NoOpKeepsHistory ==
    [][(/\ alert' = AlreadyConnectedAlert
        /\ alert' # alert
        /\ nodes' = nodes
        /\ connections' = connections) => history' = history]_vars

====
